---- MODULE Spec2Model ----
(***************************************************************************)
(* A model of the sparse Merkle tree calculator HStar2 and of the          *)
(* MapHasher it is parameterised by (merkle/maphasher/maphasher.go).       *)
(*                                                                         *)
(* Hashes.  The hash function is modelled as an ideal, collision-free      *)
(* hash: the digest of a preimage is the preimage itself, a sequence of    *)
(* small integers ("bytes").  HashLeaf and HashChildren write the domain   *)
(* prefix and then their arguments, as the code does.  Leaf data bytes and *)
(* stored hashes never use the bytes 0 and 1, so the prefix code is        *)
(* uniquely decodable and distinct trees have distinct hashes.             *)
(*                                                                         *)
(* Callbacks.  The caller's get and set are data: the set of node          *)
(* addresses at which get fails, at which get finds a stored hash, and at  *)
(* which set fails.  Every call of the caller's get and set is appended to *)
(* the call log in the order the code makes it.                            *)
(*                                                                         *)
(* NodeID.  The storage package's NodeID is in the repository only through *)
(* its tests and NewNodeIDWithPrefix; its other constructors and methods   *)
(* are modelled as the specification describes them, with bit 0 the most   *)
(* significant bit of byte 0.                                              *)
(*                                                                         *)
(* Balancer.  The Random balancer of testonly/loglb/balancer: its map of   *)
(* connected addresses and its notify channel, called by grpc.             *)
(*                                                                         *)
(* LogClient.  The client's trusted root and its two mutexes, and the      *)
(* goroutines that call GetRoot, UpdateRoot, WaitForRootUpdate and         *)
(* WaitForInclusion on it, each at a line of the method it is in.  The log  *)
(* server and the verifier are the environment: every answer they can give *)
(* is tried.                                                               *)
(***************************************************************************)
EXTENDS Integers, Sequences, FiniteSets, TLC

VARIABLES
    nullHashes,  \* MapHasher.nullHashes: the ladder of empty-branch hashes
    pc,          \* "idle": no call outstanding; "HStar2Root", "HStar2Nodes": in
                 \* that function, past its sort; "done": the call has returned
    call,        \* the arguments of the last call
    values,      \* the caller's values slice as the call left it
    ret,         \* what the call returned: [h, err]
    calls        \* the caller's get and set calls, in order

\* The NodeID a caller holds and what the caller did with it last.
VARIABLES
    ctor,        \* the constructor call that made the NodeID: its arguments
    node,        \* the NodeID: [Path, PrefixLenBits, PathLenBits]
    op,          \* the last method called on the NodeID, with its arguments
    out          \* what the constructor or the method returned

\* The Random balancer.
VARIABLES
    connectedAddrs,  \* Random.connectedAddrs: the map of connected addresses
    notify,          \* Random.notify: the address lists in the channel's buffer
    dialing,         \* the addresses grpc last received from notify and dials
    bcall,           \* the last call made on the balancer, with its arguments
    bret             \* what that call returned

\* The LogClient and the goroutines that call it.
VARIABLES
    root,        \* LogClient.root: the trusted root
    rootLock,    \* LogClient.rootLock: the goroutine that holds it
    updateLock,  \* LogClient.updateLock: the goroutine that holds it
    goroutines   \* each goroutine: the method it is in, the line it is at, its
                 \* ctx and its local variables

hstar2Vars == <<nullHashes, pc, call, values, ret, calls>>
nodeVars == <<ctor, node, op, out>>
balancerVars == <<connectedAddrs, notify, dialing, bcall, bret>>
clientVars == <<root, rootLock, updateLock, goroutines>>

vars == <<hstar2Vars, nodeVars, balancerVars, clientVars>>

\* What the operations of one component leave alone: the other components.
notHStar2 == <<nodeVars, balancerVars, clientVars>>
notNode == <<hstar2Vars, balancerVars, clientVars>>
notBalancer == <<hstar2Vars, nodeVars, clientVars>>
notClient == <<hstar2Vars, nodeVars, balancerVars>>

(***************************************************************************)
(* Bounds.                                                                 *)
(***************************************************************************)
\* The width of the hash in bits, m.BitLen() = m.Size() * 8 (256 for SHA-256),
\* scaled down: the tree has BitLen levels below its root and 2^BitLen leaves.
BitLen == 2
\* The most leaves a caller passes in values.
MaxLeaves == 3
\* The widest size PaddedBytes is called with directly, in bytes.
MaxWidth == 2

(***************************************************************************)
(* MapHasher                                                               *)
(***************************************************************************)
leafHashPrefix == 0
nodeHashPrefix == 1

\* m.Size() in bytes: the scaled-down hash still occupies whole bytes.  Size is
\* read only as the width PaddedBytes pads an index to.
Size == (BitLen + 7) \div 8

\* A nil []byte.
Nil == <<>>

\* Errors are values [msg, a, b]; NoErr is the nil error.
NoErr == [msg |-> "nil", a |-> 0, b |-> 0]
ErrNegativeTreeLevelOffset ==
    [msg |-> "treeLevelOffset cannot be negative", a |-> 0, b |-> 0]
ErrBaseCase(len) ==
    [msg |-> "hStar2b base case: len(values): %d, want 1", a |-> len, b |-> 0]
\* A panic unwinds every frame; it is carried like an error nobody handles.
PanicHashEmpty(height) ==
    [msg |-> "panic: HashEmpty(%v) out of bounds", a |-> height, b |-> 0]
PanicSliceBounds ==
    [msg |-> "panic: slice bounds out of range", a |-> 0, b |-> 0]

HashLeaf(leaf) == <<leafHashPrefix>> \o leaf

HashChildren(l, r) == <<nodeHashPrefix>> \o l \o r

\* r[0..i] of initNullHashes: r[0] is the empty leaf, r[i] = H(r[i-1], r[i-1]).
RECURSIVE nullHashesUpTo(_)
nullHashesUpTo(i) ==
    IF i = 0 THEN <<HashLeaf(Nil)>>
    ELSE LET r == nullHashesUpTo(i - 1)
         IN  Append(r, HashChildren(r[i], r[i]))

\* nodes = BitLen + 1 entries, r[0] .. r[BitLen].
initNullHashes == nullHashesUpTo(BitLen)

\* HashEmpty indexing the ladder by the depth it logs, BitLen - height, in
\* place of the height.
HashEmptyByDepth(index, height) ==
    IF height < 0 \/ height >= Len(nullHashes)
    THEN [h |-> Nil, err |-> PanicHashEmpty(height)]
    ELSE [h |-> nullHashes[BitLen - height + 1], err |-> NoErr]

\* HashEmpty: a table lookup; Go index `height` is position height + 1.
HashEmpty(index, height) ==
    IF height < 0 \/ height >= Len(nullHashes)
    THEN [h |-> Nil, err |-> PanicHashEmpty(height)]
    ELSE [h |-> nullHashes[height + 1], err |-> NoErr]

(***************************************************************************)
(* big.Int <-> bytes                                                       *)
(***************************************************************************)
\* big.Int.SetBytes: big-endian.
RECURSIVE SetBytes(_)
SetBytes(buf) ==
    IF Len(buf) = 0 THEN 0
    ELSE SetBytes(SubSeq(buf, 1, Len(buf) - 1)) * 256 + buf[Len(buf)]

\* big.Int.Bytes: big-endian, no leading zero byte.
RECURSIVE Bytes(_)
Bytes(i) == IF i = 0 THEN <<>> ELSE Append(Bytes(i \div 256), i % 256)

\* PaddedBytes with copy(ret, b) in place of copy(ret[padBytes:], b): the value
\* is written at the front and the zeros follow it.
PaddedBytesPadsRight(i, size) ==
    LET b == Bytes(i)
        padBytes == size - Len(b)
    IN  IF padBytes < 0
        THEN [bytes |-> Nil, err |-> PanicSliceBounds]
        ELSE [bytes |-> [k \in 1..size |-> IF k <= Len(b) THEN b[k] ELSE 0],
              err |-> NoErr]

\* PaddedBytes: ret[padBytes:] panics when i needs more than size bytes.
PaddedBytes(i, size) ==
    LET b == Bytes(i)
        padBytes == size - Len(b)
    IN  IF padBytes < 0
        THEN [bytes |-> Nil, err |-> PanicSliceBounds]
        ELSE [bytes |-> [k \in 1..size |-> IF k <= padBytes THEN 0 ELSE b[k - padBytes]],
              err |-> NoErr]

(***************************************************************************)
(* Sorting and searching the leaves                                        *)
(***************************************************************************)
\* ByIndex.Less
Less(s, i, j) == s[i].Index < s[j].Index

IsSortedByIndex(s) == \A i \in 1..(Len(s) - 1) : ~Less(s, i + 1, i)

PermutationsOf(s) ==
    { [i \in 1..Len(s) |-> s[p[i]]] : p \in Permutations(1..Len(s)) }

\* HStar2Root without its sort.Sort line.
SortByIndexOmitted(s) == { s }

\* sort.Sort(ByIndex{values}): not stable, so leaves of equal index may end in
\* either order: every sorted permutation is a possible outcome.
SortByIndex(s) == { t \in PermutationsOf(s) : IsSortedByIndex(t) }

\* sort.Search(n, f): binary search on [i, j) for the least index where f holds;
\* indices are 0-based as in Go.
RECURSIVE SearchFrom(_, _, _, _)
SearchFrom(s, split, i, j) ==
    IF i < j
    THEN LET h == (i + j) \div 2
         IN  IF ~(s[h + 1].Index >= split)
             THEN SearchFrom(s, split, h + 1, j)
             ELSE SearchFrom(s, split, i, h)
    ELSE i

\* Search with the comparison `> 0` in place of `>= 0`: a leaf whose index is
\* the split goes to the left half.
SearchPastSplit(s, split) == SearchFrom(s, split + 1, 0, Len(s))

Search(s, split) == SearchFrom(s, split, 0, Len(s))

(***************************************************************************)
(* The caller's callbacks                                                  *)
(***************************************************************************)
\* What a stored node holds; not a hash the calculator could compute itself.
StoredHash == <<leafHashPrefix, 9>>

ErrGet(level, index) == [msg |-> "get failed", a |-> level, b |-> index]
ErrSet(level, index) == [msg |-> "set failed", a |-> level, b |-> index]

\* The caller's SparseGetNodeFunc: fails at the addresses in env.getErr, finds
\* StoredHash at those in env.cache and nothing (nil, nil) anywhere else.
Get(env, level, index) ==
    IF <<level, index>> \in env.getErr
    THEN [h |-> Nil, err |-> ErrGet(level, index)]
    ELSE IF <<level, index>> \in env.cache
    THEN [h |-> StoredHash, err |-> NoErr]
    ELSE [h |-> Nil, err |-> NoErr]

\* The caller's SparseSetNodeFunc: fails at the addresses in env.setErr.
Set(env, level, index, hash) ==
    IF <<level, index>> \in env.setErr THEN ErrSet(level, index) ELSE NoErr

NoEnv == [getErr |-> {}, cache |-> {}, setErr |-> {}]

\* One entry of the call log: the arguments the caller's callback received, what
\* it returned, and n, the local height of the node hStar2b was at.
GetCall(n, level, index, r) ==
    [op |-> "get", n |-> n, level |-> level, index |-> index, hash |-> r.h, err |-> r.err]
SetCall(n, level, index, hash, e) ==
    [op |-> "set", n |-> n, level |-> level, index |-> index, hash |-> hash, err |-> e]

(***************************************************************************)
(* HStar2                                                                  *)
(***************************************************************************)
\* The closures HStar2Root and HStar2Nodes hand to hStar2b, as data.
RootCallbacks == [kind |-> "root", treeDepth |-> 0, treeLevelOffset |-> 0, env |-> NoEnv]
\* The closures of HStar2Nodes with the level offset left out of the height
\* passed to HashEmpty.
NodesCallbacksNoOffset(treeDepth, treeLevelOffset, env) ==
    [kind |-> "nodes", treeDepth |-> treeDepth, treeLevelOffset |-> 0, env |-> env]

NodesCallbacks(treeDepth, treeLevelOffset, env) ==
    [kind |-> "nodes", treeDepth |-> treeDepth,
     treeLevelOffset |-> treeLevelOffset, env |-> env]

\* s.hasher.HashEmpty(s.treeID, PaddedBytes(index, s.hasher.Size()), height):
\* the argument is evaluated first.
HashEmptyAt(index, height) ==
    LET pb == PaddedBytes(index, Size)
    IN  IF pb.err # NoErr THEN [h |-> Nil, err |-> pb.err]
        ELSE HashEmpty(pb.bytes, height)

\* The get closure of HStar2Nodes without `if err != nil { return nil, err }`:
\* a failed get counts as nothing stored.
CallGetMasksErr(cb, depth, index) ==
    IF cb.kind = "root"
    THEN LET e == HashEmptyAt(index, depth)
         IN  [h |-> e.h, err |-> e.err, calls |-> <<>>]
    ELSE LET level == cb.treeDepth - depth
             r == Get(cb.env, level, index)
             c == <<GetCall(depth, level, index, r)>>
         IN  IF r.h # Nil THEN [h |-> r.h, err |-> NoErr, calls |-> c]
             ELSE LET e == HashEmptyAt(index, depth + cb.treeLevelOffset)
                  IN  [h |-> e.h, err |-> e.err, calls |-> c]

\* The get closure of HStar2Nodes without `if h != nil { return h, nil }`: the
\* stored hash is fetched and the empty hash used all the same.
CallGetDropsStored(cb, depth, index) ==
    IF cb.kind = "root"
    THEN LET e == HashEmptyAt(index, depth)
         IN  [h |-> e.h, err |-> e.err, calls |-> <<>>]
    ELSE LET level == cb.treeDepth - depth
             r == Get(cb.env, level, index)
             c == <<GetCall(depth, level, index, r)>>
         IN  IF r.err # NoErr THEN [h |-> Nil, err |-> r.err, calls |-> c]
             ELSE LET e == HashEmptyAt(index, depth + cb.treeLevelOffset)
                  IN  [h |-> e.h, err |-> e.err, calls |-> c]

\* The get closure of HStar2Root, and the one of HStar2Nodes.
CallGet(cb, depth, index) ==
    IF cb.kind = "root"
    THEN LET e == HashEmptyAt(index, depth)
         IN  [h |-> e.h, err |-> e.err, calls |-> <<>>]
    ELSE LET level == cb.treeDepth - depth
             r == Get(cb.env, level, index)
             c == <<GetCall(depth, level, index, r)>>
         IN  IF r.err # NoErr THEN [h |-> Nil, err |-> r.err, calls |-> c]
             ELSE IF r.h # Nil THEN [h |-> r.h, err |-> NoErr, calls |-> c]
             ELSE LET e == HashEmptyAt(index, depth + cb.treeLevelOffset)
                  IN  [h |-> e.h, err |-> e.err, calls |-> c]

\* The set closure of HStar2Nodes storing the root of the subtree alone.
CallSetOnlyRoot(cb, depth, index, hash) ==
    IF cb.kind = "root" \/ depth # cb.treeDepth
    THEN [err |-> NoErr, calls |-> <<>>]
    ELSE LET level == cb.treeDepth - depth
             e == Set(cb.env, level, index, hash)
         IN  [err |-> e, calls |-> <<SetCall(depth, level, index, hash, e)>>]

\* The set closure of HStar2Nodes passing hStar2b's height on as the level.
CallSetLevelIsHeight(cb, depth, index, hash) ==
    IF cb.kind = "root"
    THEN [err |-> NoErr, calls |-> <<>>]
    ELSE LET level == depth
             e == Set(cb.env, level, index, hash)
         IN  [err |-> e, calls |-> <<SetCall(depth, level, index, hash, e)>>]

\* The set closure of HStar2Root (does nothing), and the one of HStar2Nodes.
CallSet(cb, depth, index, hash) ==
    IF cb.kind = "root"
    THEN [err |-> NoErr, calls |-> <<>>]
    ELSE LET level == cb.treeDepth - depth
             e == Set(cb.env, level, index, hash)
         IN  [err |-> e, calls |-> <<SetCall(depth, level, index, hash, e)>>]

\* hStar2b at n == 0 taking the first of several values for one leaf.
hStar2bBaseFirstWins(vs, offset, cb) ==
    IF Len(vs) = 0 THEN CallGet(cb, 0, offset)
    ELSE [h |-> vs[1].LeafHash, err |-> NoErr, calls |-> <<>>]

\* hStar2b at n == 0: an empty leaf is the getter's, one value is the leaf, more
\* than one is an error.
hStar2bBase(vs, offset, cb) ==
    IF Len(vs) = 0 THEN CallGet(cb, 0, offset)
    ELSE IF Len(vs) # 1
    THEN [h |-> Nil, err |-> ErrBaseCase(Len(vs)), calls |-> <<>>]
    ELSE [h |-> vs[1].LeafHash, err |-> NoErr, calls |-> <<>>]

\* A node stored before its children are computed.
CallsSetFirst(lhs, rhs, s) == s.calls \o lhs.calls \o rhs.calls

\* The order of the calls of a node that is computed: the left recursion, the
\* right recursion, then set.
CallsInOrder(lhs, rhs, s) == lhs.calls \o rhs.calls \o s.calls

\* hStar2b: the result [h, err] and the callback calls made on the way.  What
\* set returns is dropped: `set(n, offset, h)` is a statement.  Both callers
\* pass a closure for set, never nil.
RECURSIVE hStar2b(_, _, _, _)
hStar2b(n, vs, offset, cb) ==
    IF n = 0 THEN hStar2bBase(vs, offset, cb)
    ELSE IF Len(vs) = 0 THEN CallGet(cb, n, offset)
    ELSE
      LET split == 2 ^ (n - 1) + offset
          i == Search(vs, split)
          lhs == hStar2b(n - 1, SubSeq(vs, 1, i), offset, cb)
      IN  IF lhs.err # NoErr
          THEN [h |-> Nil, err |-> lhs.err, calls |-> lhs.calls]
          ELSE
            LET rhs == hStar2b(n - 1, SubSeq(vs, i + 1, Len(vs)), split, cb)
            IN  IF rhs.err # NoErr
                THEN [h |-> Nil, err |-> rhs.err, calls |-> lhs.calls \o rhs.calls]
                ELSE
                  LET h == HashChildren(lhs.h, rhs.h)
                      s == CallSet(cb, n, offset, h)
                  IN  [h |-> h, err |-> NoErr, calls |-> CallsInOrder(lhs, rhs, s)]

\* HStar2Root after the sort: hStar2b from offset zero with the default closures.
HStar2RootSorted(n, sorted) == hStar2b(n, sorted, 0, RootCallbacks)

\* HStar2Nodes once treeLevelOffset is known not to be negative, after the sort.
HStar2NodesSorted(index, depth, subtreeDepth, sorted, env) ==
    LET treeDepth == subtreeDepth
        treeLevelOffset == BitLen - depth - subtreeDepth
        offset == SetBytes(index)
    IN  hStar2b(treeDepth, sorted, offset,
                NodesCallbacks(treeDepth, treeLevelOffset, env))

(***************************************************************************)
(* Inputs                                                                  *)
(***************************************************************************)
\* The leaf hash of the k-th leaf the caller passes: two hashes in turn, so that
\* leaves of one list agree in their hash or differ.
LeafHashAt(k) == HashLeaf(<<7 + (k % 2)>>)

Leaf(i, h) == [Index |-> i, LeafHash |-> h]

\* Every list of at most MaxLeaves leaves with indices in lo .. hi, in any
\* order; an index may occur more than once.
LeafLists(lo, hi) ==
    UNION { { [k \in 1..len |-> Leaf(f[k], LeafHashAt(k))] : f \in [1..len -> lo..hi] }
            : len \in 0..MaxLeaves }

\* The subtree locations a caller passes as index: the root is at nil, a
\* subtree below it at the index of its leftmost leaf.
IndexBytes(depth) == IF depth = 0 THEN { <<>> } ELSE { <<0>>, <<0, 4>> }

\* The addresses (level, index) of the nodes of the subtree of subtreeDepth
\* levels whose leftmost leaf has index offset, as get and set see them.
NodeKeys(subtreeDepth, offset) ==
    UNION { { <<subtreeDepth - n, offset + j * 2 ^ n>> :
                j \in 0..(2 ^ (subtreeDepth - n) - 1) } : n \in 0..subtreeDepth }

\* The nodes at which the caller's callbacks fail or hold a stored hash: those
\* of the subtree's four leftmost leaf positions and above them.
FaultKeys(subtreeDepth, offset) ==
    { k \in NodeKeys(subtreeDepth, offset) : k[2] < offset + 4 }

\* The callbacks a caller passes: sound ones, ones with a single failing get, a
\* single stored node or a single failing set among the nodes K, a store that
\* holds every node of K, and a set that always fails.
Envs(K) ==
    {NoEnv}
    \cup { [getErr |-> {k}, cache |-> {}, setErr |-> {}] : k \in K }
    \cup { [getErr |-> {}, cache |-> {k}, setErr |-> {}] : k \in K }
    \cup { [getErr |-> {}, cache |-> {}, setErr |-> {k}] : k \in K }
    \cup { [getErr |-> {}, cache |-> K, setErr |-> {}],
           [getErr |-> {}, cache |-> {}, setErr |-> K] }

\* The heights HStar2Root is called with: those the hasher has an empty hash for.
RootHeights == 0..BitLen

\* The leaves HStar2Root is called with at height n: leaves of that tree.
RootLeaves(n) == LeafLists(0, 2 ^ n - 1)

\* The leaves HStar2Nodes is called with: leaves of the subtree; for a subtree
\* that reaches below the tree's leaves, leaves of its two leftmost positions.
NodesLeaves(index, depth, subtreeDepth) ==
    IF depth + subtreeDepth > BitLen
    THEN LeafLists(SetBytes(index), SetBytes(index) + 1)
    ELSE LeafLists(SetBytes(index), SetBytes(index) + 2 ^ subtreeDepth - 1)

\* The heights HashEmpty is called with directly: two below the ladder to two
\* above it.
EmptyHeights == (0 - 2)..(BitLen + 2)

\* The bytes the indexes passed to PaddedBytes are made of.
SampleBytes == {0, 1, 255}

\* The indexes PaddedBytes is called with: the values of up to MaxWidth + 1
\* sample bytes, so that some need more bytes than the widest size; a value of
\* four bytes or more begins with a byte below 128 and stays below 2^31.
PaddedIndexes ==
    { SetBytes(b) :
        b \in { c \in UNION { [1..len -> SampleBytes] : len \in 0..(MaxWidth + 1) } :
                  Len(c) < 4 \/ c[1] < 128 } }

(***************************************************************************)
(* The operations                                                          *)
(***************************************************************************)
Outcome(vs, r) == [values |-> vs, h |-> r.h, err |-> r.err, calls |-> r.calls]

\* HStar2Root as a whole: every result [values, h, err, calls] it can have.
HStar2RootOutcomes(n, vs) ==
    { Outcome(sorted, HStar2RootSorted(n, sorted)) : sorted \in SortByIndex(vs) }

\* HStar2Nodes as a whole: every result it can have.
HStar2NodesOutcomes(index, depth, subtreeDepth, vs, env) ==
    IF BitLen - depth - subtreeDepth < 0
    THEN { Outcome(vs, [h |-> Nil, err |-> ErrNegativeTreeLevelOffset, calls |-> <<>>]) }
    ELSE { Outcome(sorted, HStar2NodesSorted(index, depth, subtreeDepth, sorted, env)) :
             sorted \in SortByIndex(vs) }

\* No NodeID made yet: the zero NodeID{}, no constructor, no method, no result.
NoNodeID == [Path |-> <<>>, PrefixLenBits |-> 0, PathLenBits |-> 0]
NoCtor == [op |-> "none"]
NoOp == [op |-> "none"]
NoOut == [err |-> NoErr, str |-> <<>>, sibs |-> <<>>]

\* A Go map is nil until it is made; keys is what it holds.
NilMap == [nil |-> TRUE, keys |-> {}]

\* No balancer yet: nothing called, nothing returned.  addr "" is the zero
\* grpc.Address{}.
NoBalancerCall == [op |-> "none", addresses |-> <<>>, addr |-> ""]
NoBalancerRet == [addr |-> "", err |-> NoErr]

\* The goroutines that call the LogClient: both call UpdateRoot, the first
\* calls WaitForRootUpdate and WaitForInclusion as well and the second GetRoot.
Goroutines == {"g1", "g2"}
Waiters == {"g1"}
Readers == {"g2"}
Includers == {"g1"}

\* No goroutine: the value of a mutex nobody holds.
Unlocked == "unlocked"

\* A nil *types.LogRootV1 and a nil error; status.Code(nil) is codes.OK.
NilRoot == <<>>
NilErr == [code |-> "OK", msg |-> ""]

\* What getAndVerifyInclusionProof returned, the root it was called with and
\* the trusted root of that moment; no call yet.
NoProof == [ok |-> FALSE, err |-> NilErr, root |-> NilRoot, trusted |-> NilRoot]

\* A goroutine outside every call.  caller is the method that called the one
\* the goroutine is in, when that is WaitForInclusion.
IdleGoroutine ==
    [method |-> "none", caller |-> "none", line |-> "idle", ctxDone |-> FALSE,
     currentlyTrusted |-> NilRoot, newTrusted |-> NilRoot, err |-> NilErr,
     verified |-> FALSE, applied |-> NilRoot, attempts |-> 0,
     proof |-> NoProof,
     ret |-> [root |-> NilRoot, err |-> NilErr]]

NoCall == [op |-> "none", n |-> 0, index |-> <<>>, depth |-> 0, subtreeDepth |-> 0,
           values |-> <<>>, env |-> NoEnv]
NoRet == [h |-> Nil, err |-> NoErr]

Init ==
    /\ nullHashes = initNullHashes
    /\ pc = "idle"
    /\ call = NoCall
    /\ values = <<>>
    /\ ret = NoRet
    /\ calls = <<>>
    /\ ctor = NoCtor
    /\ node = NoNodeID
    /\ op = NoOp
    /\ out = NoOut
    /\ connectedAddrs = NilMap
    /\ notify = <<>>
    /\ dialing = {}
    /\ bcall = NoBalancerCall
    /\ bret = NoBalancerRet
    /\ root = <<>>
    /\ rootLock = Unlocked
    /\ updateLock = Unlocked
    /\ goroutines = [g \in Goroutines |-> IdleGoroutine]

\* HStar2Root up to its sort: the caller's slice is sorted in place.
HStar2RootSort ==
    /\ pc = "idle"
    /\ \E n \in RootHeights : \E vs \in RootLeaves(n) :
         /\ call' = [op |-> "HStar2Root", n |-> n, index |-> <<>>, depth |-> 0,
                     subtreeDepth |-> n, values |-> vs, env |-> NoEnv]
         /\ values' \in SortByIndex(vs)
    /\ pc' = "HStar2Root"
    /\ UNCHANGED <<nullHashes, ret, calls>>
    /\ UNCHANGED notHStar2

\* HStar2Root from its call of hStar2b to its return.
HStar2RootRecurse ==
    /\ pc = "HStar2Root"
    /\ LET r == HStar2RootSorted(call.n, values)
       IN  /\ ret' = [h |-> r.h, err |-> r.err]
           /\ calls' = r.calls
    /\ pc' = "done"
    /\ UNCHANGED <<nullHashes, call, values>>
    /\ UNCHANGED notHStar2

\* HStar2Nodes with sort.Sort moved above the treeLevelOffset check: the caller's
\* slice is sorted before the error is returned.
HStar2NodesSortsFirst ==
    /\ pc = "idle"
    /\ \E depth \in 0..BitLen : \E subtreeDepth \in 0..(BitLen - depth + 1) :
       \E index \in IndexBytes(depth) : \E vs \in NodesLeaves(index, depth, subtreeDepth) :
       \E env \in IF depth + subtreeDepth > BitLen THEN {NoEnv}
                  ELSE Envs(FaultKeys(subtreeDepth, SetBytes(index))) :
         /\ call' = [op |-> "HStar2Nodes", n |-> subtreeDepth, index |-> index,
                     depth |-> depth, subtreeDepth |-> subtreeDepth,
                     values |-> vs, env |-> env]
         /\ values' \in SortByIndex(vs)
         /\ IF BitLen - depth - subtreeDepth < 0
            THEN /\ ret' = [h |-> Nil, err |-> ErrNegativeTreeLevelOffset]
                 /\ pc' = "done"
            ELSE /\ ret' = ret
                 /\ pc' = "HStar2Nodes"
    /\ UNCHANGED <<nullHashes, calls>>
    /\ UNCHANGED notHStar2

\* HStar2Nodes up to its sort; a negative treeLevelOffset returns before it.  A
\* subtree inside the tree comes with leaves of that subtree and any of the
\* callbacks; a subtree that reaches below the tree's leaves (a negative
\* treeLevelOffset) comes with sound callbacks.
HStar2NodesSort ==
    /\ pc = "idle"
    /\ \E depth \in 0..BitLen : \E subtreeDepth \in 0..(BitLen - depth + 1) :
       \E index \in IndexBytes(depth) : \E vs \in NodesLeaves(index, depth, subtreeDepth) :
       \E env \in IF depth + subtreeDepth > BitLen THEN {NoEnv}
                  ELSE Envs(FaultKeys(subtreeDepth, SetBytes(index))) :
         /\ call' = [op |-> "HStar2Nodes", n |-> subtreeDepth, index |-> index,
                     depth |-> depth, subtreeDepth |-> subtreeDepth,
                     values |-> vs, env |-> env]
         /\ IF BitLen - depth - subtreeDepth < 0
            THEN /\ values' = vs
                 /\ ret' = [h |-> Nil, err |-> ErrNegativeTreeLevelOffset]
                 /\ pc' = "done"
            ELSE /\ values' \in SortByIndex(vs)
                 /\ ret' = ret
                 /\ pc' = "HStar2Nodes"
    /\ UNCHANGED <<nullHashes, calls>>
    /\ UNCHANGED notHStar2

\* HStar2Nodes from its call of hStar2b to its return.
HStar2NodesRecurse ==
    /\ pc = "HStar2Nodes"
    /\ LET r == HStar2NodesSorted(call.index, call.depth, call.subtreeDepth, values, call.env)
       IN  /\ ret' = [h |-> r.h, err |-> r.err]
           /\ calls' = r.calls
    /\ pc' = "done"
    /\ UNCHANGED <<nullHashes, call, values>>
    /\ UNCHANGED notHStar2

\* m.HashEmpty(treeID, index, height) called on the hasher directly, with any
\* height from below the ladder to above it.
CallHashEmpty ==
    /\ pc = "idle"
    /\ \E height \in EmptyHeights :
         /\ call' = [op |-> "HashEmpty", n |-> height, index |-> <<>>, depth |-> 0,
                     subtreeDepth |-> 0, values |-> <<>>, env |-> NoEnv]
         /\ ret' = HashEmpty(<<>>, height)
    /\ pc' = "done"
    /\ UNCHANGED <<nullHashes, values, calls>>
    /\ UNCHANGED notHStar2

\* PaddedBytes(i, size) called directly; the big.Int i is the call's index.
CallPaddedBytes ==
    /\ pc = "idle"
    /\ \E i \in PaddedIndexes : \E size \in 0..MaxWidth :
         /\ call' = [op |-> "PaddedBytes", n |-> size, index |-> i, depth |-> 0,
                     subtreeDepth |-> 0, values |-> <<>>, env |-> NoEnv]
         /\ LET pb == PaddedBytes(i, size)
            IN  ret' = [h |-> pb.bytes, err |-> pb.err]
    /\ pc' = "done"
    /\ UNCHANGED <<nullHashes, values, calls>>
    /\ UNCHANGED notHStar2

\* The caller takes the result; the calculator keeps nothing between calls.
Return ==
    /\ pc = "done"
    /\ pc' = "idle"
    /\ call' = NoCall
    /\ values' = <<>>
    /\ ret' = NoRet
    /\ calls' = <<>>
    /\ UNCHANGED nullHashes
    /\ UNCHANGED notHStar2

Next ==
    \/ HStar2RootSort
    \/ HStar2RootRecurse
    \/ HStar2NodesSort
    \/ HStar2NodesRecurse
    \/ CallHashEmpty
    \/ CallPaddedBytes
    \/ Return

Spec == Init /\ [][Next]_vars

(***************************************************************************)
(* Reference trees                                                         *)
(***************************************************************************)
\* The positions in vs of the leaves beneath the node of height n whose
\* leftmost leaf has index offset.
Beneath(vs, n, offset) ==
    { k \in 1..Len(vs) : vs[k].Index >= offset /\ vs[k].Index < offset + 2 ^ n }

DistinctIndices(vs) ==
    \A i \in 1..Len(vs) : \A j \in 1..Len(vs) : i # j => vs[i].Index # vs[j].Index

HasDuplicateIndex(vs) == ~DistinctIndices(vs)

\* The full binary Merkle tree of height n over the leaf positions offset ..
\* offset + 2^n - 1: a position holds the leaf hash of the value with that
\* index, or emptyLeaf; every interior node is HashChildren of its children.
RECURSIVE FullTree(_, _, _, _)
FullTree(n, offset, vs, emptyLeaf) ==
    IF n = 0
    THEN IF Beneath(vs, 0, offset) = {} THEN emptyLeaf
         ELSE vs[CHOOSE k \in Beneath(vs, 0, offset) : TRUE].LeafHash
    ELSE HashChildren(FullTree(n - 1, offset, vs, emptyLeaf),
                      FullTree(n - 1, offset + 2 ^ (n - 1), vs, emptyLeaf))

RootDone == pc = "done" /\ call.op = "HStar2Root"
NodesDone == pc = "done" /\ call.op = "HStar2Nodes"

(***************************************************************************)
(* C1.  For every height n and leaves with pairwise distinct indices in    *)
(* [0, 2^n), HStar2Root(n, values) returns the root of the full binary     *)
(* Merkle tree of height n whose leaf i is the given leaf hash when index  *)
(* i is present and HashEmpty(0) otherwise, every interior node being      *)
(* HashChildren of its children; HStar2Root(n, empty) = HashEmpty(n).      *)
(***************************************************************************)
C1_RootIsFullTree ==
    (RootDone /\ DistinctIndices(call.values)) =>
        /\ ret.err = NoErr
        /\ ret.h = FullTree(call.n, 0, call.values, nullHashes[1])
        /\ (call.values = <<>> => ret.h = nullHashes[call.n + 1])

\* HStar2Root has returned for the tallest tree with two leaves in both halves.
C1_Witness ==
    /\ RootDone
    /\ call.n = BitLen
    /\ Len(call.values) = 2
    /\ call.values[1].Index = 2 ^ (BitLen - 1)
    /\ call.values[2].Index = 0
    /\ ret.err = NoErr
    /\ ret.h # nullHashes[call.n + 1]

(***************************************************************************)
(* C2.  HStar2Root(n, values) returns the same result for every            *)
(* permutation of the same list of (index, leaf hash) pairs.               *)
(***************************************************************************)
C2_OrderIndependent ==
    RootDone =>
        \A p \in PermutationsOf(call.values) :
            \A o \in HStar2RootOutcomes(call.n, p) :
                o.h = ret.h /\ o.err = ret.err

\* HStar2Root has returned a hash for leaves passed in descending index order.
C2_Witness ==
    /\ RootDone
    /\ Len(call.values) = 2
    /\ call.values[1].Index > call.values[2].Index
    /\ call.values[1].LeafHash # call.values[2].LeafHash
    /\ ret.err = NoErr
    /\ values # call.values

(***************************************************************************)
(* The call log of HStar2Nodes                                             *)
(***************************************************************************)
GetCalls == { k \in 1..Len(calls) : calls[k].op = "get" }
SetCalls == { k \in 1..Len(calls) : calls[k].op = "set" }

\* The nodes (n, offset of the leftmost leaf) get and set were called for.
GetKeys == { <<calls[k].n, calls[k].index>> : k \in GetCalls }
SetKeys == { <<calls[k].n, calls[k].index>> : k \in SetCalls }

\* treeLevelOffset and offset of the call.
TreeLevelOffset == BitLen - call.depth - call.subtreeDepth
Offset == SetBytes(call.index)

\* The nodes of the subtree as (n, offset of the leftmost leaf), n the height.
SubtreeNodes ==
    UNION { { <<n, Offset + j * 2 ^ n>> : j \in 0..(2 ^ (call.subtreeDepth - n) - 1) }
            : n \in 0..call.subtreeDepth }

\* The leftmost leaf of the parent of the node (n, off).
ParentOffset(n, off) == Offset + ((off - Offset) \div 2 ^ (n + 1)) * 2 ^ (n + 1)

\* The nodes hStar2b reaches with an empty slice: no value beneath them, and
\* they are the root or their parent has a value beneath it.
ReachedEmpty ==
    { nd \in SubtreeNodes :
        /\ Beneath(call.values, nd[1], nd[2]) = {}
        /\ \/ nd[1] = call.subtreeDepth
           \/ Beneath(call.values, nd[1] + 1, ParentOffset(nd[1], nd[2])) # {} }

\* The nodes hStar2b computes from their children: interior, a value beneath.
Computed ==
    { nd \in SubtreeNodes : nd[1] >= 1 /\ Beneath(call.values, nd[1], nd[2]) # {} }

\* The hash of the node (n, offset) of a subtree of sd levels over a store: a
\* node with no value beneath it is what get finds, or the empty hash of its
\* absolute height n + tlo when get finds nothing; a leaf with a value is the
\* value's leaf hash; any other node is HashChildren of its children.
RECURSIVE TreeOverStore(_, _, _, _, _, _)
TreeOverStore(n, offset, vs, env, sd, tlo) ==
    IF Beneath(vs, n, offset) = {}
    THEN LET g == Get(env, sd - n, offset)
         IN  IF g.h # Nil THEN g.h ELSE nullHashes[n + tlo + 1]
    ELSE IF n = 0 THEN vs[CHOOSE k \in Beneath(vs, 0, offset) : TRUE].LeafHash
    ELSE HashChildren(TreeOverStore(n - 1, offset, vs, env, sd, tlo),
                      TreeOverStore(n - 1, offset + 2 ^ (n - 1), vs, env, sd, tlo))

(***************************************************************************)
(* C3.  If the caller's set returns an error for any node during           *)
(* HStar2Nodes, HStar2Nodes returns that error instead of a hash.          *)
(***************************************************************************)
C3_SetErrorReturned ==
    NodesDone =>
        \A k \in SetCalls :
            calls[k].err # NoErr => (ret.err = calls[k].err /\ ret.h = Nil)

(***************************************************************************)
(* C4.  If the caller's get returns an error for any node consulted during *)
(* HStar2Nodes, HStar2Nodes returns exactly that error and no hash, at     *)
(* whatever recursion depth the failing get occurred.                      *)
(***************************************************************************)
C4_GetErrorReturned ==
    NodesDone =>
        \A k \in GetCalls :
            calls[k].err # NoErr => (ret.err = calls[k].err /\ ret.h = Nil)

\* A get at the bottom of the deepest recursion failed, after other calls.
C4_Witness ==
    /\ NodesDone
    /\ call.subtreeDepth = BitLen
    /\ Len(calls) >= 2
    /\ calls[Len(calls)].op = "get"
    /\ calls[Len(calls)].n = 0
    /\ calls[Len(calls)].err # NoErr
    /\ ret.err = calls[Len(calls)].err

(***************************************************************************)
(* C5.  For values with distinct indices inside the subtree and a getter   *)
(* that always returns nil, HStar2Nodes returns the hash of the full tree  *)
(* of subtreeDepth levels whose leaf at each value's index is its leaf     *)
(* hash and whose every other leaf is HashEmpty(BitLen - depth -           *)
(* subtreeDepth); with depth 0, subtreeDepth = BitLen and offset 0 that is *)
(* HStar2Root(BitLen, values).                                             *)
(***************************************************************************)
C5_NodesIsFullTree ==
    (/\ NodesDone
     /\ TreeLevelOffset >= 0
     /\ DistinctIndices(call.values)
     /\ call.env.getErr = {} /\ call.env.cache = {}) =>
        /\ ret.err = NoErr
        /\ ret.h = FullTree(call.subtreeDepth, Offset, call.values,
                            nullHashes[TreeLevelOffset + 1])
        /\ (call.depth = 0 /\ call.subtreeDepth = BitLen /\ Offset = 0) =>
              \A o \in HStar2RootOutcomes(BitLen, call.values) :
                  o.h = ret.h /\ o.err = ret.err

\* HStar2Nodes has returned for a subtree above the tree's leaves, with a leaf
\* and an empty position.
C5_Witness ==
    /\ NodesDone
    /\ TreeLevelOffset >= 1
    /\ call.subtreeDepth >= 1
    /\ Len(call.values) = 1
    /\ call.env = NoEnv
    /\ ret.err = NoErr
    /\ ret.h # nullHashes[call.subtreeDepth + TreeLevelOffset + 1]

(***************************************************************************)
(* C6.  In HStar2Nodes every node reached with an empty slice of values    *)
(* has the hash get returns when that is not nil, and otherwise            *)
(* HashEmpty(n + BitLen - depth - subtreeDepth), n the node's local        *)
(* height; get is never called for a node with a value beneath it.         *)
(***************************************************************************)
C6_EmptyNodesFromGet ==
    (NodesDone /\ TreeLevelOffset >= 0) =>
        LET reached == ReachedEmpty
            got == GetKeys
        IN  /\ \A k \in GetCalls : Beneath(call.values, calls[k].n, calls[k].index) = {}
            /\ got \subseteq reached
            /\ Cardinality(got) = Cardinality(GetCalls)
            /\ ret.err = NoErr =>
                  /\ got = reached
                  /\ ret.h = TreeOverStore(call.subtreeDepth, Offset, call.values,
                                           call.env, call.subtreeDepth, TreeLevelOffset)

\* One empty node was taken from the store and another from the null ladder.
C6_Witness ==
    /\ NodesDone
    /\ ret.err = NoErr
    /\ call.values # <<>>
    /\ \E k \in GetCalls : calls[k].hash = StoredHash
    /\ \E k \in GetCalls : calls[k].hash = Nil /\ calls[k].err = NoErr

(***************************************************************************)
(* C7.  During one HStar2Nodes call, set is called exactly once for each   *)
(* node at local height >= 1 that has at least one value beneath it, with  *)
(* HashChildren of that node's two child hashes, and is never called for   *)
(* leaves or for nodes whose hash was taken from get or the null ladder.   *)
(***************************************************************************)
ChildrenHash(n, off) ==
    HashChildren(
        TreeOverStore(n - 1, off, call.values, call.env,
                      call.subtreeDepth, TreeLevelOffset),
        TreeOverStore(n - 1, off + 2 ^ (n - 1), call.values, call.env,
                      call.subtreeDepth, TreeLevelOffset))

\* set is called only for computed nodes, with the hash of their children, and
\* never twice for one node.
SetOnlyForComputed ==
    /\ SetKeys \subseteq Computed
    /\ Cardinality(SetKeys) = Cardinality(SetCalls)
    /\ \A k \in SetCalls : calls[k].hash = ChildrenHash(calls[k].n, calls[k].index)

\* C7 as stated: in every call.
C7_SetOncePerComputedNode ==
    (NodesDone /\ TreeLevelOffset >= 0) =>
        /\ SetKeys = Computed
        /\ SetOnlyForComputed

\* C7 amended: set is called exactly once for each such node in a call that
\* returns a hash; in a call that returns an error set is called at most once
\* for each such node, and in either case for no other node.
C7_SetOncePerComputedNodeOnSuccess ==
    (NodesDone /\ TreeLevelOffset >= 0) =>
        /\ ret.err = NoErr => SetKeys = Computed
        /\ SetOnlyForComputed

\* A call has returned a hash after storing two nodes and passing a stored hash
\* on.
C7_Witness ==
    /\ NodesDone
    /\ ret.err = NoErr
    /\ Cardinality(SetCalls) >= 2
    /\ \E k \in GetCalls : calls[k].hash = StoredHash

(***************************************************************************)
(* C8.  The level HStar2Nodes passes to the caller's get and set counts    *)
(* levels from the bottom of the subtree: level 0 is the deepest (leaf)    *)
(* level and level subtreeDepth is the subtree's root.                     *)
(***************************************************************************)
\* C8 as stated: the level is the node's height above the subtree's leaves.
C8_LevelCountsFromBottom ==
    NodesDone => \A k \in 1..Len(calls) : calls[k].level = calls[k].n

\* C8 amended: the level counts from the top of the subtree, subtreeDepth - n:
\* level 0 is the subtree's root and level subtreeDepth its leaf level.
C8_LevelCountsFromTop ==
    NodesDone =>
        /\ \A k \in 1..Len(calls) : calls[k].level = call.subtreeDepth - calls[k].n
        /\ (ret.err = NoErr /\ call.values # <<>> /\ call.subtreeDepth >= 1) =>
              /\ calls[Len(calls)].op = "set"
              /\ calls[Len(calls)].hash = ret.h
              /\ calls[Len(calls)].level = 0
        /\ \A k \in GetCalls :
              (calls[k].level = call.subtreeDepth) => calls[k].index \in
                  { Offset + j : j \in 0..(2 ^ call.subtreeDepth - 1) }

\* A subtree of the tree's full height was computed with a get for a leaf and
\* the set of the root.
C8_Witness ==
    /\ NodesDone
    /\ call.subtreeDepth = BitLen
    /\ ret.err = NoErr
    /\ \E k \in GetCalls : calls[k].level = call.subtreeDepth /\ calls[k].n = 0
    /\ \E k \in SetCalls : calls[k].level = 0 /\ calls[k].hash = ret.h

(***************************************************************************)
(* C9.  In every execution of HStar2Nodes all get calls for nodes inside a *)
(* recursion branch occur before the set call for the branch's root, and   *)
(* of two computed nodes one above the other the descendant's set call     *)
(* occurs before the ancestor's.                                           *)
(***************************************************************************)
\* The node of call c lies strictly below the node of call x.
Below(c, x) ==
    /\ c.n < x.n
    /\ c.index >= x.index
    /\ c.index < x.index + 2 ^ x.n

C9_BranchCallsBeforeSet ==
    NodesDone =>
        \A p \in SetCalls : \A k \in 1..Len(calls) :
            Below(calls[k], calls[p]) => k < p

\* A set of a node with a get and a set beneath it.
C9_Witness ==
    /\ NodesDone
    /\ \E p \in SetCalls :
          /\ \E k \in GetCalls : Below(calls[k], calls[p])
          /\ \E k \in SetCalls : Below(calls[k], calls[p])

(***************************************************************************)
(* C10.  If values contains two or more leaves with the same index,        *)
(* HStar2Root and HStar2Nodes return the base-case arity error instead of  *)
(* a hash, whatever the other leaves are.                                  *)
(***************************************************************************)
IsArityError(e) == \E len \in 2..Len(call.values) : e = ErrBaseCase(len)

\* C10 as stated, for HStar2Root and for HStar2Nodes on a subtree inside the
\* tree (treeLevelOffset >= 0).
C10_DuplicateIsArityError ==
    (/\ pc = "done"
     /\ HasDuplicateIndex(call.values)
     /\ TreeLevelOffset >= 0) =>
        ret.h = Nil /\ IsArityError(ret.err)

\* C10 amended: never a hash; the arity error, unless HStar2Nodes is called
\* with a negative treeLevelOffset (ErrNegativeTreeLevelOffset) or a get made
\* before the duplicates' leaf is reached fails (that get's error).
C10_DuplicateIsError ==
    (pc = "done" /\ HasDuplicateIndex(call.values)) =>
        /\ ret.h = Nil
        /\ ret.err # NoErr
        /\ RootDone => IsArityError(ret.err)
        /\ NodesDone =>
              IF TreeLevelOffset < 0 THEN ret.err = ErrNegativeTreeLevelOffset
              ELSE IF \E k \in GetCalls : calls[k].err # NoErr
              THEN ret.err = calls[Len(calls)].err
              ELSE IsArityError(ret.err)

\* Two leaves of one index and a third leaf elsewhere: the arity error.
C10_Witness ==
    /\ NodesDone
    /\ Len(call.values) = 3
    /\ call.values[1].Index = call.values[3].Index
    /\ call.values[2].Index < call.values[1].Index
    /\ ret.h = Nil
    /\ ret.err = ErrBaseCase(2)

(***************************************************************************)
(* C11.  HStar2Nodes returns ErrNegativeTreeLevelOffset if and only if     *)
(* BitLen - depth - subtreeDepth < 0, and in that case it calls neither    *)
(* get nor set and leaves the order of the caller's values unchanged.      *)
(***************************************************************************)
C11_NegativeOffsetIffError ==
    NodesDone =>
        /\ (ret.err = ErrNegativeTreeLevelOffset) <=> (TreeLevelOffset < 0)
        /\ TreeLevelOffset < 0 =>
              /\ ret.h = Nil
              /\ calls = <<>>
              /\ values = call.values

\* The error was returned for a list of leaves that is not in index order.
C11_Witness ==
    /\ NodesDone
    /\ TreeLevelOffset < 0
    /\ Len(call.values) >= 2
    /\ ~IsSortedByIndex(call.values)
    /\ ret.err = ErrNegativeTreeLevelOffset

(***************************************************************************)
(* C12.  After construction the null-hash ladder has exactly BitLen + 1    *)
(* entries, E[0] = HashLeaf(empty) and E[k] = HashChildren(E[k-1], E[k-1]) *)
(* for 1 <= k <= BitLen; HashEmpty(h) returns E[h] for 0 <= h <= BitLen,   *)
(* panics for every other h, and never changes the ladder.                 *)
(***************************************************************************)
HashEmptyDone == pc = "done" /\ call.op = "HashEmpty"

C12_NullLadder ==
    /\ Len(nullHashes) = BitLen + 1
    /\ nullHashes[1] = <<leafHashPrefix>>
    /\ \A k \in 1..BitLen :
          nullHashes[k + 1] = <<nodeHashPrefix>> \o nullHashes[k] \o nullHashes[k]
    /\ HashEmptyDone =>
          IF call.n >= 0 /\ call.n <= BitLen
          THEN ret.err = NoErr /\ ret.h = nullHashes[call.n + 1]
          ELSE ret.h = Nil /\ ret.err = PanicHashEmpty(call.n)

\* HashEmpty has returned the empty hash of the leaf level, which is not that
\* of the root.
C12_Witness ==
    /\ HashEmptyDone
    /\ call.n = 0
    /\ ret.err = NoErr
    /\ ret.h = <<leafHashPrefix>>
    /\ ret.h # nullHashes[BitLen + 1]

(***************************************************************************)
(* C17.  For every width w and every index with 0 <= index < 2^(8w),       *)
(* PaddedBytes(index, w) returns exactly w bytes whose big-endian value is *)
(* index, left-padded with zero bytes, and does not modify index.          *)
(***************************************************************************)
PaddedBytesDone == pc = "done" /\ call.op = "PaddedBytes"

\* The big-endian value of the bytes b: b[k] counts 256^(Len(b) - k).
RECURSIVE BigEndianValue(_, _)
BigEndianValue(b, k) ==
    IF k > Len(b) THEN 0
    ELSE b[k] * 256 ^ (Len(b) - k) + BigEndianValue(b, k + 1)

\* The number of bytes i needs: the least w with i < 256^w.
RECURSIVE BytesNeeded(_)
BytesNeeded(i) == IF i = 0 THEN 0 ELSE 1 + BytesNeeded(i \div 256)

C17_PaddedBytesIsBigEndian ==
    (PaddedBytesDone /\ call.index < 256 ^ call.n) =>
        /\ ret.err = NoErr
        /\ Len(ret.h) = call.n
        /\ \A k \in 1..Len(ret.h) : ret.h[k] \in 0..255
        /\ BigEndianValue(ret.h, 1) = call.index
        /\ \A k \in 1..(call.n - BytesNeeded(call.index)) : ret.h[k] = 0

\* An index of one byte was padded to two bytes or more.
C17_Witness ==
    /\ PaddedBytesDone
    /\ call.n >= 2
    /\ call.index = 255
    /\ ret.err = NoErr
    /\ ret.h[1] = 0
    /\ ret.h[call.n] = 255

(***************************************************************************)
(* NodeID                                                                  *)
(***************************************************************************)
\* The tallest tree whose coordinates are made into NodeIDs, in bits: paths of
\* MaxPathBits - 1 bits fill one byte, paths of MaxPathBits bits need two.
MaxPathBits == 9
\* The tallest tree whose NodeIDs are rewritten bit by bit.
MaxSmallBits == 3

\* bytesForBits: the bytes that hold numBits bits.
bytesForBits(numBits) == (numBits + 7) \div 8

\* make([]byte, n): n zero bytes.
ZeroBytes(n) == [k \in 1..n |-> 0]

\* The weight of bit k within its byte: bit 0 is the most significant.
BitMask(k) == 2 ^ (7 - (k % 8))

\* bit k of a byte buffer, k counted from the most significant bit of byte 0.
BitOf(path, k) == (path[(k \div 8) + 1] \div BitMask(k)) % 2

\* the buffer with bit k written as v.
WithBit(path, k, v) ==
    [path EXCEPT ![(k \div 8) + 1] = (@ - BitOf(path, k) * BitMask(k)) + v * BitMask(k)]

\* NodeID.Bit(k)
Bit(n, k) == BitOf(n.Path, k)

\* NodeID.SetBit(k, v): writes bit k; the lengths stay as they are.
SetBit(n, k, v) == [n EXCEPT !.Path = WithBit(n.Path, k, v)]

\* copy(dst, src): the bytes of src over the front of dst, as many as fit.
Copy(dst, src) == [k \in 1..Len(dst) |-> IF k <= Len(src) THEN src[k] ELSE dst[k]]

\* node.Prefix(prefix, bits, prefixBits): the first prefixBits bits of prefix in
\* bytesForBits(prefixBits) bytes, the bits after them in the last byte zero.
Prefix(prefix, bits, prefixBits) ==
    [k \in 1..bytesForBits(prefixBits) |->
        IF 8 * k <= prefixBits THEN prefix[k]
        ELSE LET drop == 2 ^ (8 * k - prefixBits)
             IN  (prefix[k] \div drop) * drop]

\* NewEmptyNodeID(maxBits)
NewEmptyNodeID(maxBits) ==
    [Path |-> ZeroBytes(bytesForBits(maxBits)), PrefixLenBits |-> 0, PathLenBits |-> maxBits]

\* NewNodeIDWithPrefix with copy(path, prefix): every bit of prefix is copied,
\* those after prefixBits too.
NewNodeIDWithWholePrefix(prefix, prefixBits, pathBits, maxBits) ==
    [Path |-> Copy(ZeroBytes(bytesForBits(maxBits)), prefix),
     PrefixLenBits |-> prefixBits,
     PathLenBits |-> pathBits]

\* NewNodeIDWithPrefix
NewNodeIDWithPrefix(prefix, prefixBits, pathBits, maxBits) ==
    LET path == ZeroBytes(bytesForBits(maxBits))
        pfx == Prefix(prefix, Len(prefix) * 8, prefixBits)
    IN  [Path |-> Copy(path, pfx),
         PrefixLenBits |-> prefixBits,
         PathLenBits |-> pathBits]

ErrIndexTooLarge(depth, index) ==
    [msg |-> "index is too large for given depth", a |-> depth, b |-> index]

\* The big-endian bytes of v in exactly n bytes.
RECURSIVE FixedBytes(_, _)
FixedBytes(v, n) ==
    IF n = 0 THEN <<>> ELSE Append(FixedBytes(v \div 256, n - 1), v % 256)

\* NewNodeIDForTreeCoords with the index written at the low end of the buffer,
\* not shifted up to bit 0.
NewNodeIDForTreeCoordsUnshifted(depth, index, maxBits) ==
    LET prefixBits == maxBits - depth
        size == bytesForBits(maxBits)
    IN  IF index >= 2 ^ prefixBits
        THEN [id |-> NoNodeID, err |-> ErrIndexTooLarge(depth, index)]
        ELSE [id |-> [Path |-> FixedBytes(index, size),
                      PrefixLenBits |-> prefixBits,
                      PathLenBits |-> maxBits],
              err |-> NoErr]

\* NewNodeIDForTreeCoords: fails when the index has no place at that depth;
\* otherwise PrefixLenBits = maxBits - depth and the index is shifted left so
\* that the first of its PrefixLenBits bits is bit 0 of the buffer.
NewNodeIDForTreeCoords(depth, index, maxBits) ==
    LET prefixBits == maxBits - depth
        size == bytesForBits(maxBits)
    IN  IF index >= 2 ^ prefixBits
        THEN [id |-> NoNodeID, err |-> ErrIndexTooLarge(depth, index)]
        ELSE [id |-> [Path |-> FixedBytes(index * 2 ^ (8 * size - prefixBits), size),
                      PrefixLenBits |-> prefixBits,
                      PathLenBits |-> maxBits],
              err |-> NoErr]

\* Text is a sequence of characters.
Digit(d) == <<"0", "1", "2", "3", "4", "5", "6", "7", "8", "9">>[d + 1]

\* %d of a number that is not negative.
RECURSIVE Itoa(_)
Itoa(v) == IF v < 10 THEN <<Digit(v)>> ELSE Append(Itoa(v \div 10), Digit(v % 10))

\* fmt.Sprintf("[d:%d, i:%d]", d, i)
SprintfCoord(d, i) ==
    <<"[", "d", ":">> \o Itoa(d) \o <<",", " ", "i", ":">> \o Itoa(i) \o <<"]">>

\* NodeID.String(): the first PrefixLenBits bits, most significant first.
String(n) == [k \in 1..n.PrefixLenBits |-> Digit(Bit(n, k - 1))]

\* The number the first bits bits of the NodeID spell, most significant first.
RECURSIVE PrefixValue(_, _)
PrefixValue(n, bits) ==
    IF bits = 0 THEN 0 ELSE 2 * PrefixValue(n, bits - 1) + Bit(n, bits - 1)

\* CoordString reading the depth as the prefix length.
CoordStringDepthIsPrefix(n) ==
    SprintfCoord(n.PrefixLenBits, PrefixValue(n, n.PrefixLenBits))

\* NodeID.CoordString(): depth = PathLenBits - PrefixLenBits, index decoded
\* from the first PrefixLenBits bits.
CoordString(n) ==
    SprintfCoord(n.PathLenBits - n.PrefixLenBits, PrefixValue(n, n.PrefixLenBits))

\* The sibling of length l: the first l bits of the path with bit l - 1
\* flipped, in a buffer of the same size.
SiblingAt(n, l) ==
    LET pfx == Prefix(n.Path, Len(n.Path) * 8, l)
        path == Copy(ZeroBytes(Len(n.Path)), pfx)
    IN  [Path |-> WithBit(path, l - 1, 1 - BitOf(path, l - 1)),
         PrefixLenBits |-> l,
         PathLenBits |-> n.PathLenBits]

\* Siblings listing the siblings from the root's child down to the node's own.
SiblingsFromRoot(n) == [i \in 1..n.PrefixLenBits |-> SiblingAt(n, i)]

\* NodeID.Siblings(): the siblings along the path toward the root, the node's
\* own sibling (length PrefixLenBits) first, the one of length 1 last.
Siblings(n) == [i \in 1..n.PrefixLenBits |-> SiblingAt(n, n.PrefixLenBits - i + 1)]

(***************************************************************************)
(* NodeID: the callers                                                     *)
(***************************************************************************)
\* The tree heights coordinates are converted for, and those of the NodeIDs
\* that are rewritten.
CoordPathBits == {MaxPathBits - 1, MaxPathBits}
SmallPathBits == 1..MaxSmallBits

\* The prefixes NewNodeIDWithPrefix is called with: none, 0xAB, 0xABE4, 0x3456.
PrefixSamples == { <<>>, <<171>>, <<171, 228>>, <<52, 86>> }

\* The bits SetBit is called for: those of the smallest paths and one more.
SetBitPositions == 0..MaxSmallBits

NewCtor(name, prefix, prefixBits, pathBits, maxBits, depth, index) ==
    [op |-> name, prefix |-> prefix, prefixBits |-> prefixBits, pathBits |-> pathBits,
     maxBits |-> maxBits, depth |-> depth, index |-> index]

\* A caller makes an empty NodeID for a tree of one of the heights B.
CallNewEmptyNodeID(B) ==
    /\ ctor = NoCtor
    /\ \E maxBits \in B :
         /\ ctor' = NewCtor("NewEmptyNodeID", <<>>, 0, 0, maxBits, 0, 0)
         /\ node' = NewEmptyNodeID(maxBits)
    /\ op' = NoOp
    /\ out' = NoOut
    /\ UNCHANGED notNode

\* A caller makes a NodeID from a prefix: prefixBits bits the prefix has and
\* the path has room for, pathBits the prefix length or the tree's height.
CallNewNodeIDWithPrefix(B) ==
    /\ ctor = NoCtor
    /\ \E maxBits \in B : \E prefix \in PrefixSamples :
       \E prefixBits \in 0..maxBits : \E pathBits \in {prefixBits, maxBits} :
         /\ prefixBits <= 8 * Len(prefix)
         /\ ctor' = NewCtor("NewNodeIDWithPrefix", prefix, prefixBits, pathBits, maxBits, 0, 0)
         /\ node' = NewNodeIDWithPrefix(prefix, prefixBits, pathBits, maxBits)
    /\ op' = NoOp
    /\ out' = NoOut
    /\ UNCHANGED notNode

\* A caller makes the NodeID of tree coordinates: any depth of the tree and any
\* index of that depth, or the first index past it.
CallNewNodeIDForTreeCoords(B) ==
    /\ ctor = NoCtor
    /\ \E maxBits \in B : \E depth \in 0..maxBits : \E index \in 0..(2 ^ (maxBits - depth)) :
         LET r == NewNodeIDForTreeCoords(depth, index, maxBits)
         IN  /\ ctor' = NewCtor("NewNodeIDForTreeCoords", <<>>, 0, 0, maxBits, depth, index)
             /\ node' = r.id
             /\ out' = [NoOut EXCEPT !.err = r.err]
    /\ op' = NoOp
    /\ UNCHANGED notNode

\* The caller holds a NodeID: a constructor has returned one without an error.
HasNodeID == ctor # NoCtor /\ out.err = NoErr

CoordsNewEmptyNodeID == CallNewEmptyNodeID(CoordPathBits)
CoordsNewNodeIDWithPrefix == CallNewNodeIDWithPrefix(CoordPathBits)
CoordsNewNodeIDForTreeCoords == CallNewNodeIDForTreeCoords(CoordPathBits)

SmallNewEmptyNodeID == CallNewEmptyNodeID(SmallPathBits)
SmallNewNodeIDWithPrefix == CallNewNodeIDWithPrefix(SmallPathBits)
SmallNewNodeIDForTreeCoords == CallNewNodeIDForTreeCoords(SmallPathBits)

NewOp(name, k, v) == [op |-> name, k |-> k, v |-> v]

CallCoordString ==
    /\ HasNodeID
    /\ op' = NewOp("CoordString", 0, 0)
    /\ out' = [out EXCEPT !.str = CoordString(node)]
    /\ UNCHANGED <<ctor, node, notNode>>

CallString ==
    /\ HasNodeID
    /\ op' = NewOp("String", 0, 0)
    /\ out' = [out EXCEPT !.str = String(node)]
    /\ UNCHANGED <<ctor, node, notNode>>

CallSiblings ==
    /\ HasNodeID
    /\ op' = NewOp("Siblings", 0, 0)
    /\ out' = [out EXCEPT !.sibs = Siblings(node)]
    /\ UNCHANGED <<ctor, node, notNode>>

\* n.SetBit(k, v) for a bit the buffer has.
CallSetBit ==
    /\ HasNodeID
    /\ \E k \in SetBitPositions : \E v \in {0, 1} :
         /\ k < 8 * Len(node.Path)
         /\ op' = NewOp("SetBit", k, v)
         /\ node' = SetBit(node, k, v)
    /\ UNCHANGED <<ctor, out, notNode>>

\* The caller goes on with one of the siblings Siblings returned.
TakeSibling ==
    /\ HasNodeID
    /\ \E j \in 1..Len(out.sibs) :
         /\ op' = NewOp("TakeSibling", j, 0)
         /\ node' = out.sibs[j]
    /\ out' = [out EXCEPT !.sibs = <<>>]
    /\ UNCHANGED <<ctor, notNode>>

\* The caller lets go of the NodeID.
Discard ==
    /\ ctor # NoCtor
    /\ ctor' = NoCtor
    /\ node' = NoNodeID
    /\ op' = NoOp
    /\ out' = NoOut
    /\ UNCHANGED notNode

\* Coordinates made into NodeIDs and read back.
NextCoords ==
    \/ CoordsNewEmptyNodeID
    \/ CoordsNewNodeIDWithPrefix
    \/ CoordsNewNodeIDForTreeCoords
    \/ CallCoordString
    \/ CallString
    \/ CallSiblings
    \/ Discard

SpecCoords == Init /\ [][NextCoords]_vars

\* NodeIDs of small trees, rewritten and replaced by their siblings at will.
NextNodeID ==
    \/ SmallNewEmptyNodeID
    \/ SmallNewNodeIDWithPrefix
    \/ SmallNewNodeIDForTreeCoords
    \/ CallSetBit
    \/ CallSiblings
    \/ TakeSibling
    \/ Discard

SpecNodeID == Init /\ [][NextNodeID]_vars

(***************************************************************************)
(* C13.  For every max_bits, every depth d with 0 <= d <= max_bits and     *)
(* every index i with 0 <= i < 2^(max_bits - d),                           *)
(* NewNodeIDForTreeCoords(d, i, max_bits) succeeds and CoordString() of    *)
(* the result is exactly "[d:d, i:i]".                                     *)
(***************************************************************************)
FromTreeCoords == ctor.op = "NewNodeIDForTreeCoords"

C13_CoordStringRoundTrip ==
    (/\ FromTreeCoords
     /\ ctor.depth >= 0 /\ ctor.depth <= ctor.maxBits
     /\ ctor.index >= 0 /\ ctor.index < 2 ^ (ctor.maxBits - ctor.depth)) =>
        /\ out.err = NoErr
        /\ op.op = "CoordString" => out.str = SprintfCoord(ctor.depth, ctor.index)

\* The coordinates (2, 4) of a tree of 8 levels were made into a NodeID and
\* read back, and (1, 130) of a tree whose paths take two bytes.
C13_Witness ==
    /\ FromTreeCoords
    /\ op.op = "CoordString"
    /\ \/ /\ ctor.maxBits = 8 /\ ctor.depth = 2 /\ ctor.index = 4
          /\ out.str = <<"[", "d", ":", "2", ",", " ", "i", ":", "4", "]">>
       \/ /\ ctor.maxBits = MaxPathBits /\ ctor.depth = 1 /\ ctor.index = 130
          /\ out.str = <<"[", "d", ":", "1", ",", " ", "i", ":", "1", "3", "0", "]">>

(***************************************************************************)
(* C14.  NewNodeIDForTreeCoords(depth, index, max_bits) returns an error   *)
(* if and only if index >= 2^(max_bits - depth); in every other case it    *)
(* returns a NodeID with prefix_bits = max_bits - depth whose first        *)
(* prefix_bits bits are the binary digits of index, most significant       *)
(* first.                                                                  *)
(***************************************************************************)
\* Binary digit k of index written in bits digits, digit 0 the most significant.
BinaryDigit(index, bits, k) == (index \div 2 ^ (bits - 1 - k)) % 2

C14_TreeCoordsErrorOrPrefix ==
    FromTreeCoords =>
        LET bits == ctor.maxBits - ctor.depth
        IN  /\ (out.err # NoErr) <=> (ctor.index >= 2 ^ bits)
            /\ out.err = NoErr =>
                  /\ node.PrefixLenBits = bits
                  /\ \A k \in 0..(bits - 1) : Bit(node, k) = BinaryDigit(ctor.index, bits, k)
                  /\ op.op = "String" =>
                        out.str = [k \in 1..bits |-> Digit(BinaryDigit(ctor.index, bits, k - 1))]

\* An index that is one bit too long for its depth was refused.
C14_Witness ==
    /\ FromTreeCoords
    /\ ctor.depth = ctor.maxBits - 1
    /\ ctor.index = 2
    /\ out.err = ErrIndexTooLarge(ctor.depth, ctor.index)
    /\ node = NoNodeID

(***************************************************************************)
(* C15.  For every NodeID with prefix_bits = p, Siblings() returns exactly *)
(* p NodeIDs whose lengths are p, p-1, ..., 1 in that order, and the entry *)
(* of length l equals the first l bits of the original path with bit l-1   *)
(* inverted and all other bits unchanged; the original NodeID is not       *)
(* modified.                                                               *)
(***************************************************************************)
\* The NodeID the constructor call returned.
Constructed ==
    IF ctor.op = "NewEmptyNodeID" THEN NewEmptyNodeID(ctor.maxBits)
    ELSE IF ctor.op = "NewNodeIDWithPrefix"
    THEN NewNodeIDWithPrefix(ctor.prefix, ctor.prefixBits, ctor.pathBits, ctor.maxBits)
    ELSE IF ctor.op = "NewNodeIDForTreeCoords"
    THEN NewNodeIDForTreeCoords(ctor.depth, ctor.index, ctor.maxBits).id
    ELSE NoNodeID

C15_SiblingsAlongPath ==
    op.op = "Siblings" =>
        LET p == node.PrefixLenBits
        IN  /\ Len(out.sibs) = p
            /\ \A i \in 1..p :
                  LET l == p - i + 1
                      sib == out.sibs[i]
                  IN  /\ sib.PrefixLenBits = l
                      /\ Bit(sib, l - 1) = 1 - Bit(node, l - 1)
                      /\ \A k \in 0..(l - 2) : Bit(sib, k) = Bit(node, k)
            /\ node = Constructed

\* The siblings of the first nine bits of 0xABE4, 101010111: the first is
\* 101010110 and the last is 0.
C15_Witness ==
    /\ op.op = "Siblings"
    /\ ctor.op = "NewNodeIDWithPrefix"
    /\ ctor.prefix = <<171, 228>>
    /\ ctor.prefixBits = 9
    /\ Len(out.sibs) = 9
    /\ String(out.sibs[1]) = <<"1", "0", "1", "0", "1", "0", "1", "1", "0">>
    /\ String(out.sibs[8]) = <<"1", "1">>
    /\ String(out.sibs[9]) = <<"0">>

(***************************************************************************)
(* C16.  Every NodeID reachable by any constructor (NewEmptyNodeID,        *)
(* NewNodeIDWithPrefix, NewNodeIDForTreeCoords) followed by any sequence   *)
(* of SetBit and Siblings calls has all bits of its path at positions >=   *)
(* prefix_bits equal to zero.                                              *)
(***************************************************************************)
\* Every bit of the buffer from PrefixLenBits on is zero.
BitsBeyondPrefixZero(n) ==
    \A k \in n.PrefixLenBits..(8 * Len(n.Path) - 1) : Bit(n, k) = 0

MaxAddresses == 2

\* The addresses there are.
Addrs == {"a", "b", "c"}

\* Every list of at most MaxAddresses addresses.
AddressLists == UNION { [1..len -> Addrs] : len \in 0..MaxAddresses }

\* make(chan []grpc.Address, 1): the buffer holds one list.
NotifyCap == 1

ErrNoConnectedAddresses == [msg |-> "No connected addresses", a |-> 0, b |-> 0]
PanicNilMap == [msg |-> "panic: assignment to entry in nil map", a |-> 0, b |-> 0]

\* A balancer New has made, which has not panicked.
BalancerUp == bcall.op # "none" /\ bret.err # PanicNilMap

\* m[k] = true: a panic when m is nil, as it is until it is made.
MapAssign(m, k) ==
    IF m.nil THEN [m |-> m, err |-> PanicNilMap]
    ELSE [m |-> [m EXCEPT !.keys = @ \cup {k}], err |-> NoErr]

\* New(addresses): the struct literal sets notify alone, so connectedAddrs is
\* the nil map; the addresses go into the empty buffer of notify.
RandomNew ==
    /\ bcall.op = "none"
    /\ \E addresses \in AddressLists :
         /\ bcall' = [op |-> "New", addresses |-> addresses, addr |-> ""]
         /\ notify' = Append(notify, addresses)
    /\ connectedAddrs' = NilMap
    /\ bret' = NoBalancerRet
    /\ UNCHANGED <<dialing, notBalancer>>

\* Start: logs and returns nil.
RandomStart ==
    /\ BalancerUp
    /\ bcall' = [op |-> "Start", addresses |-> <<>>, addr |-> ""]
    /\ bret' = NoBalancerRet
    /\ UNCHANGED <<connectedAddrs, notify, dialing, notBalancer>>

\* Up(addr), called by grpc when it has connected to an address it dials:
\* r.connectedAddrs[addr] = true, then the down function is returned.  The
\* assignment panics on the nil map, so Up does not return and no down function
\* comes to exist.
RandomUp ==
    /\ BalancerUp
    /\ \E addr \in dialing :
         LET r == MapAssign(connectedAddrs, addr)
         IN  /\ bcall' = [op |-> "Up", addresses |-> <<>>, addr |-> addr]
             /\ connectedAddrs' = r.m
             /\ bret' = [addr |-> "", err |-> r.err]
    /\ UNCHANGED <<notify, dialing, notBalancer>>

\* Get: the first address a range over the map yields, in no fixed order; the
\* error when the range yields none.
RandomGet ==
    /\ BalancerUp
    /\ bcall' = [op |-> "Get", addresses |-> <<>>, addr |-> ""]
    /\ IF connectedAddrs.keys = {}
       THEN bret' = [addr |-> "", err |-> ErrNoConnectedAddresses]
       ELSE \E addr \in connectedAddrs.keys : bret' = [addr |-> addr, err |-> NoErr]
    /\ UNCHANGED <<connectedAddrs, notify, dialing, notBalancer>>

\* grpc receives a list from the channel Notify returns and dials its addresses.
RandomNotify ==
    /\ BalancerUp
    /\ notify # <<>>
    /\ bcall' = [op |-> "Notify", addresses |-> Head(notify), addr |-> ""]
    /\ notify' = Tail(notify)
    /\ dialing' = { Head(notify)[k] : k \in 1..Len(Head(notify)) }
    /\ bret' = NoBalancerRet
    /\ UNCHANGED <<connectedAddrs, notBalancer>>

\* Close: r.notify <- []grpc.Address{} blocks while the buffer is full.
RandomClose ==
    /\ BalancerUp
    /\ Len(notify) < NotifyCap
    /\ bcall' = [op |-> "Close", addresses |-> <<>>, addr |-> ""]
    /\ notify' = Append(notify, <<>>)
    /\ bret' = NoBalancerRet
    /\ UNCHANGED <<connectedAddrs, dialing, notBalancer>>

\* The process ends (after a panic or not) and another begins.
Restart ==
    /\ bcall.op # "none"
    /\ connectedAddrs' = NilMap
    /\ notify' = <<>>
    /\ dialing' = {}
    /\ bcall' = NoBalancerCall
    /\ bret' = NoBalancerRet
    /\ UNCHANGED notBalancer

NextBalancer ==
    \/ RandomNew
    \/ RandomStart
    \/ RandomUp
    \/ RandomGet
    \/ RandomNotify
    \/ RandomClose
    \/ Restart

SpecBalancer == Init /\ [][NextBalancer]_vars

(***************************************************************************)
(* C19.  After balancer.New(addresses), Up(addr) adds addr to the          *)
(* connected pool so that a following Get returns an address of the pool   *)
(* with a nil error, the returned down function removes addr again, and    *)
(* Get returns the error "No connected addresses" exactly when the pool is *)
(* empty.                                                                  *)
(***************************************************************************)
C19_UpAddsToPool ==
    /\ bcall.op = "Up" =>
          /\ bret.err = NoErr
          /\ bcall.addr \in connectedAddrs.keys
    /\ bcall.op = "Get" =>
          IF connectedAddrs.keys = {}
          THEN bret.err = ErrNoConnectedAddresses
          ELSE bret.err = NoErr /\ bret.addr \in connectedAddrs.keys

(***************************************************************************)
(* The LogClient                                                           *)
(***************************************************************************)
\* The largest tree size and the largest timestamp of a log root.
MaxTreeSize == 1
MaxTimestamp == 2

\* The most UpdateRoot attempts counted after ctx is done.
MaxAttempts == 3

RootHashes == {"A", "B"}

\* types.LogRootV1: the fields the client reads.
Roots == [TreeSize : 0..MaxTreeSize, RootHash : RootHashes, TimestampNanos : 0..MaxTimestamp]

\* An error with a grpc status code; an error that is no grpc status has the
\* code Unknown.
Err(code, msg) == [code |-> code, msg |-> msg]
statusCode(err) == err.code

\* The codes WaitForRootUpdate retries on.
RetryCodes == {"Unavailable", "NotFound", "FailedPrecondition"}

\* The errors an rpc can fail with.
RPCErrors(rpc) ==
    { Err(c, rpc) : c \in RetryCodes \cup {"Internal", "DeadlineExceeded"} }

ErrUnmarshalBinary == Err("Unknown", "UnmarshalBinary")
ErrVerifyRoot == Err("Unknown", "VerifyRoot")
ErrDeadlineExceeded == Err("DeadlineExceeded", "ctx.Err")

\* var logRoot types.LogRootV1: the zero value.
ZeroRoot == [TreeSize |-> 0, RootHash |-> "", TimestampNanos |-> 0]

\* What the log server and the verifier answer during one
\* getAndVerifyLatestRoot: the error of each call (NilErr for none) and the
\* root the server sends.
Answer(e1, logRoot, e2, e3, e4) ==
    [GetLatestSignedLogRoot |-> e1, logRoot |-> logRoot, UnmarshalBinary |-> e2,
     GetConsistencyProof |-> e3, VerifyRoot |-> e4]

\* The answers: the first rpc fails, or the root does not parse, or a root
\* arrives and the consistency proof and the verification go either way.
Answers ==
    { Answer(e1, ZeroRoot, NilErr, NilErr, NilErr) :
        e1 \in RPCErrors("GetLatestSignedLogRoot") }
    \cup { Answer(NilErr, ZeroRoot, ErrUnmarshalBinary, NilErr, NilErr) }
    \cup { Answer(NilErr, a[1], NilErr, a[2], a[3]) :
             a \in Roots \X (RPCErrors("GetConsistencyProof") \cup {NilErr})
                        \X {NilErr, ErrVerifyRoot} }

\* getAndVerifyLatestRoot(ctx, trusted) with the answers e: the root and the
\* error it returns, and whether VerifyRoot was called on that root and
\* succeeded.
getAndVerifyLatestRoot(trusted, e) ==
    LET logRoot == e.logRoot
        failed(err) == [root |-> NilRoot, err |-> err, verified |-> FALSE]
    IN  IF e.GetLatestSignedLogRoot # NilErr THEN failed(e.GetLatestSignedLogRoot)
        ELSE IF e.UnmarshalBinary # NilErr THEN failed(e.UnmarshalBinary)
        ELSE IF /\ trusted.TreeSize > 0
                /\ logRoot.TreeSize = trusted.TreeSize
                /\ logRoot.RootHash = trusted.RootHash
        THEN [root |-> <<logRoot>>, err |-> NilErr, verified |-> FALSE]
        ELSE IF trusted.TreeSize > 0 /\ e.GetConsistencyProof # NilErr
        THEN failed(e.GetConsistencyProof)
        ELSE IF logRoot.TreeSize > 0
        THEN IF e.VerifyRoot # NilErr
             THEN failed(e.VerifyRoot)
             ELSE [root |-> <<logRoot>>, err |-> NilErr, verified |-> TRUE]
        ELSE [root |-> <<logRoot>>, err |-> NilErr, verified |-> FALSE]

\* The switch with `return newTrusted, nil` under case codes.OK without the
\* test newTrusted != nil.
waitForRootUpdateSwitchNoNilTest(newTrusted, err) ==
    IF statusCode(err) = "OK"
    THEN [return |-> TRUE, root |-> newTrusted, err |-> NilErr]
    ELSE IF statusCode(err) \in RetryCodes
    THEN [return |-> FALSE, root |-> NilRoot, err |-> NilErr]
    ELSE [return |-> TRUE, root |-> NilRoot, err |-> err]

\* The switch of WaitForRootUpdate on status.Code(err): whether the method
\* returns, and what.
waitForRootUpdateSwitch(newTrusted, err) ==
    IF statusCode(err) = "OK"
    THEN IF newTrusted # NilRoot
         THEN [return |-> TRUE, root |-> newTrusted, err |-> NilErr]
         ELSE [return |-> FALSE, root |-> NilRoot, err |-> NilErr]
    ELSE IF statusCode(err) \in RetryCodes
    THEN [return |-> FALSE, root |-> NilRoot, err |-> NilErr]
    ELSE [return |-> TRUE, root |-> NilRoot, err |-> err]

\* A goroutine entering a method, with a ctx that is done or not where the
\* method reads it.
Enter(method, line, ctxDone) ==
    [IdleGoroutine EXCEPT !.method = method, !.line = line, !.ctxDone = ctxDone]

\* UpdateRoot returns (newTrusted, err) to the goroutine with the frame f: to
\* the caller, or to the loop of WaitForRootUpdate.  An attempt that ends with
\* ctx done is counted.
UpdateRootReturns(f, newTrusted, err) ==
    IF f.method = "WaitForRootUpdate"
    THEN [f EXCEPT !.line = "switch", !.newTrusted = newTrusted, !.err = err,
                   !.currentlyTrusted = NilRoot, !.verified = FALSE,
                   !.attempts = IF ~f.ctxDone THEN @
                                ELSE IF @ < MaxAttempts THEN @ + 1 ELSE @]
    ELSE [f EXCEPT !.line = "returned", !.newTrusted = NilRoot, !.err = NilErr,
                   !.currentlyTrusted = NilRoot, !.verified = FALSE,
                   !.ret = [root |-> newTrusted, err |-> err]]

\* New(logID, client, verifier, root): a LogClient that trusts root.
LogClientNew ==
    /\ root = <<>>
    /\ \E r \in Roots : root' = <<r>>
    /\ UNCHANGED <<rootLock, updateLock, goroutines, notClient>>

\* A goroutine calls GetRoot.
CallGetRoot(g) ==
    /\ g \in Readers
    /\ root # <<>>
    /\ goroutines[g].line = "idle"
    /\ goroutines' = [goroutines EXCEPT ![g] = Enter("GetRoot", "GetRoot", FALSE)]
    /\ UNCHANGED <<root, rootLock, updateLock, notClient>>

\* A goroutine calls UpdateRoot(ctx).
CallUpdateRoot(g) ==
    /\ root # <<>>
    /\ goroutines[g].line = "idle"
    /\ goroutines' = [goroutines EXCEPT ![g] = Enter("UpdateRoot", "UpdateRoot", FALSE)]
    /\ UNCHANGED <<root, rootLock, updateLock, notClient>>

\* A goroutine calls WaitForRootUpdate(ctx) and comes to the UpdateRoot call
\* of its loop.
CallWaitForRootUpdate(g) ==
    /\ g \in Waiters
    /\ root # <<>>
    /\ goroutines[g].line = "idle"
    /\ \E ctxDone \in BOOLEAN :
         goroutines' = [goroutines EXCEPT
                           ![g] = Enter("WaitForRootUpdate", "UpdateRoot", ctxDone)]
    /\ UNCHANGED <<root, rootLock, updateLock, notClient>>

\* The ctx of a WaitForRootUpdate or WaitForInclusion call is cancelled or its
\* deadline passes.
Cancel(g) ==
    /\ \/ goroutines[g].method = "WaitForRootUpdate" /\ goroutines[g].line # "returned"
       \/ goroutines[g].caller = "WaitForInclusion"
    /\ ~goroutines[g].ctxDone
    /\ goroutines' = [goroutines EXCEPT ![g].ctxDone = TRUE]
    /\ UNCHANGED <<root, rootLock, updateLock, notClient>>

\* UpdateRoot without c.updateLock.Lock(): the update begins whoever holds
\* updateLock.
UpdateLockNotTaken(g) ==
    /\ goroutines[g].line = "UpdateRoot"
    /\ goroutines' = [goroutines EXCEPT ![g].line = "GetRoot"]
    /\ UNCHANGED <<root, rootLock, updateLock, notClient>>

\* UpdateRoot: c.updateLock.Lock().
UpdateLock(g) ==
    /\ goroutines[g].line = "UpdateRoot"
    /\ updateLock = Unlocked
    /\ updateLock' = g
    /\ goroutines' = [goroutines EXCEPT ![g].line = "GetRoot"]
    /\ UNCHANGED <<root, rootLock, notClient>>

\* GetRoot: c.rootLock.Lock().
GetRootLock(g) ==
    /\ goroutines[g].line = "GetRoot"
    /\ rootLock = Unlocked
    /\ rootLock' = g
    /\ goroutines' = [goroutines EXCEPT ![g].line = "GetRootLocked"]
    /\ UNCHANGED <<root, updateLock, notClient>>

\* GetRoot: ret := c.root; return &ret, and the deferred Unlock.  The copy goes
\* to the caller, or to currentlyTrusted of UpdateRoot.
GetRootCopy(g) ==
    /\ goroutines[g].line = "GetRootLocked"
    /\ rootLock' = Unlocked
    /\ goroutines' =
         [goroutines EXCEPT
            ![g] = IF @.method = "GetRoot"
                   THEN [@ EXCEPT !.line = "returned",
                                  !.ret = [root |-> root, err |-> NilErr]]
                   ELSE [@ EXCEPT !.line = "getAndVerifyLatestRoot",
                                  !.currentlyTrusted = root]]
    /\ UNCHANGED <<root, updateLock, notClient>>

\* UpdateRoot: newTrusted, err := c.getAndVerifyLatestRoot(ctx,
\* currentlyTrusted); on an error UpdateRoot returns it and the deferred Unlock
\* of updateLock runs.
GetAndVerifyLatestRoot(g) ==
    /\ goroutines[g].line = "getAndVerifyLatestRoot"
    /\ \E e \in Answers :
         LET f == goroutines[g]
             r == getAndVerifyLatestRoot(f.currentlyTrusted[1], e)
         IN  IF r.err # NilErr
             THEN /\ goroutines' = [goroutines EXCEPT
                                       ![g] = UpdateRootReturns(f, NilRoot, r.err)]
                  /\ updateLock' = Unlocked
             ELSE /\ goroutines' = [goroutines EXCEPT
                                       ![g] = [f EXCEPT !.line = "rootLock",
                                                        !.newTrusted = r.root,
                                                        !.verified = r.verified]]
                  /\ UNCHANGED updateLock
    /\ UNCHANGED <<root, rootLock, notClient>>

\* UpdateRoot: c.rootLock.Lock().
RootLock(g) ==
    /\ goroutines[g].line = "rootLock"
    /\ rootLock = Unlocked
    /\ rootLock' = g
    /\ goroutines' = [goroutines EXCEPT ![g].line = "apply"]
    /\ UNCHANGED <<root, updateLock, notClient>>

\* UpdateRoot: the comparison with currentlyTrusted, c.root = *newTrusted when
\* it holds, the return and the deferred Unlocks of both mutexes.
Apply(g) ==
    /\ goroutines[g].line = "apply"
    /\ LET f == goroutines[g]
           new == f.newTrusted[1]
           cur == f.currentlyTrusted[1]
       IN  IF /\ new.TimestampNanos > cur.TimestampNanos
              /\ new.TreeSize >= cur.TreeSize
           THEN /\ root' = <<new>>
                /\ goroutines' = [goroutines EXCEPT
                      ![g] = UpdateRootReturns([f EXCEPT !.applied = <<new>>],
                                               f.newTrusted, NilErr)]
           ELSE /\ root' = root
                /\ goroutines' = [goroutines EXCEPT
                      ![g] = UpdateRootReturns(f, NilRoot, NilErr)]
    /\ rootLock' = Unlocked
    /\ updateLock' = Unlocked
    /\ UNCHANGED notClient

\* WaitForRootUpdate: switch status.Code(err).
Switch(g) ==
    /\ goroutines[g].line = "switch"
    /\ LET f == goroutines[g]
           s == waitForRootUpdateSwitch(f.newTrusted, f.err)
       IN  goroutines' =
             [goroutines EXCEPT
                ![g] = IF s.return
                       THEN [f EXCEPT !.line = "returned", !.newTrusted = NilRoot,
                                      !.err = NilErr,
                                      !.ret = [root |-> s.root, err |-> s.err]]
                       ELSE [f EXCEPT !.line = "select"]]
    /\ UNCHANGED <<root, rootLock, updateLock, notClient>>

\* WaitForRootUpdate: case <-ctx.Done().
SelectCtxDone(g) ==
    /\ goroutines[g].line = "select"
    /\ goroutines[g].ctxDone
    /\ goroutines' = [goroutines EXCEPT
                        ![g] = [@ EXCEPT !.line = "returned", !.newTrusted = NilRoot,
                                         !.err = NilErr,
                                         !.ret = [root |-> NilRoot,
                                                  err |-> ErrDeadlineExceeded]]]
    /\ UNCHANGED <<root, rootLock, updateLock, notClient>>

\* WaitForRootUpdate: case <-time.After(b.Duration()), and the loop comes to
\* its UpdateRoot call again.  The timer is made when the select is entered and
\* runs for at least Min, 100 ms: it fires in a select that waits, which a
\* select entered with ctx done does not.
SelectTimer(g) ==
    /\ goroutines[g].line = "select"
    /\ ~goroutines[g].ctxDone
    /\ goroutines' = [goroutines EXCEPT
                        ![g] = [@ EXCEPT !.line = "UpdateRoot", !.newTrusted = NilRoot,
                                         !.err = NilErr, !.applied = NilRoot]]
    /\ UNCHANGED <<root, rootLock, updateLock, notClient>>

\* The caller takes what the method returned.
Returned(g) ==
    /\ goroutines[g].line = "returned"
    /\ goroutines[g].caller = "none"
    /\ goroutines' = [goroutines EXCEPT ![g] = IdleGoroutine]
    /\ UNCHANGED <<root, rootLock, updateLock, notClient>>

NextClient ==
    \/ LogClientNew
    \/ \E g \in Goroutines :
         \/ CallGetRoot(g)
         \/ CallUpdateRoot(g)
         \/ CallWaitForRootUpdate(g)
         \/ Cancel(g)
         \/ UpdateLock(g)
         \/ GetRootLock(g)
         \/ GetRootCopy(g)
         \/ GetAndVerifyLatestRoot(g)
         \/ RootLock(g)
         \/ Apply(g)
         \/ Switch(g)
         \/ SelectCtxDone(g)
         \/ SelectTimer(g)
         \/ Returned(g)

SpecClient == Init /\ [][NextClient]_vars

\* What a goroutine does by itself once it is in a method, the locks apart.
Run(g) ==
    \/ GetRootCopy(g)
    \/ GetAndVerifyLatestRoot(g)
    \/ Apply(g)
    \/ Switch(g)
    \/ SelectCtxDone(g)
    \/ SelectTimer(g)

\* The scheduler runs every goroutine that can run, an rpc returns, a timer
\* fires, and a goroutine that waits for a mutex gets it (sync.Mutex hands a
\* mutex over to a goroutine that has waited for it).
FairClient ==
    \A g \in Goroutines :
       /\ WF_vars(Run(g))
       /\ SF_vars(UpdateLock(g))
       /\ SF_vars(GetRootLock(g))
       /\ SF_vars(RootLock(g))

FairSpecClient == SpecClient /\ FairClient

(***************************************************************************)
(* C18.  LogClient.UpdateRoot replaces the client's trusted root only with *)
(* a fetched root that was verified (VerifyRoot succeeded) against the     *)
(* currently trusted root and that has a strictly greater timestamp and a  *)
(* tree size not smaller than the trusted root's; in every other outcome,  *)
(* including every error, the trusted root is left unchanged.              *)
(***************************************************************************)
C18_OnlyVerifiedNewerRoot ==
    [][(root # <<>> /\ root' # root) =>
          \E g \in Goroutines :
             /\ goroutines[g].line = "apply"
             /\ goroutines[g].verified
             /\ goroutines[g].currentlyTrusted = root
             /\ goroutines[g].newTrusted = root'
             /\ root'[1].TimestampNanos > root[1].TimestampNanos
             /\ root'[1].TreeSize >= root[1].TreeSize]_vars

\* The goroutine is in WaitForRootUpdate, and has returned from it.
InWaitForRootUpdate(g) ==
    goroutines[g].method = "WaitForRootUpdate" /\ goroutines[g].line # "returned"
WaitForRootUpdateReturned(g) ==
    goroutines[g].method = "WaitForRootUpdate" /\ goroutines[g].line = "returned"

\* UpdateRoot has reported no new root or an error WaitForRootUpdate retries on.
NoUpdateYet(g) ==
    /\ InWaitForRootUpdate(g)
    /\ goroutines[g].line = "switch"
    /\ \/ goroutines[g].newTrusted = NilRoot /\ goroutines[g].err = NilErr
       \/ statusCode(goroutines[g].err) \in RetryCodes

(***************************************************************************)
(* C20.  LogClient.WaitForRootUpdate keeps retrying while UpdateRoot       *)
(* reports no new root or fails with Unavailable, NotFound or              *)
(* FailedPrecondition; it returns only (a) a root that UpdateRoot just     *)
(* applied as the new trusted root, (b) an error with any other code, or   *)
(* (c) DeadlineExceeded once ctx is done, and once ctx is done it returns  *)
(* after at most one further UpdateRoot attempt.                           *)
(***************************************************************************)
C20_RetriesUntilUpdateOrDone ==
    /\ [](\A g \in Goroutines :
            /\ WaitForRootUpdateReturned(g) =>
                 LET f == goroutines[g]
                 IN  \/ /\ f.ret.root # NilRoot
                        /\ f.ret.root = f.applied
                        /\ f.ret.err = NilErr
                     \/ /\ f.ret.root = NilRoot
                        /\ statusCode(f.ret.err) \notin {"OK"} \cup RetryCodes
                        /\ f.ret.err # ErrDeadlineExceeded
                     \/ /\ f.ret.root = NilRoot
                        /\ f.ret.err = ErrDeadlineExceeded
                        /\ f.ctxDone
            /\ goroutines[g].attempts <= 1)
    /\ [][\A g \in Goroutines :
            /\ NoUpdateYet(g) => goroutines'[g].line \in {"switch", "select"}
            /\ (InWaitForRootUpdate(g) /\ goroutines[g].line = "select") =>
                  \/ goroutines'[g].line \in {"select", "UpdateRoot"}
                  \/ goroutines[g].ctxDone /\ goroutines'[g].ret.err = ErrDeadlineExceeded]_vars
    /\ \A g \in Waiters :
          (InWaitForRootUpdate(g) /\ goroutines[g].ctxDone) ~> ~InWaitForRootUpdate(g)

\* WaitForRootUpdate returned DeadlineExceeded after one UpdateRoot attempt
\* that ended with ctx done.
C20_Witness ==
    \E g \in Waiters :
       /\ WaitForRootUpdateReturned(g)
       /\ goroutines[g].ctxDone
       /\ goroutines[g].attempts = 1
       /\ goroutines[g].ret = [root |-> NilRoot, err |-> ErrDeadlineExceeded]

\* The goroutine has a root update in progress: it is in UpdateRoot between
\* its read of the trusted root and its return.
UpdateInProgress(g) ==
    /\ goroutines[g].method \in {"UpdateRoot", "WaitForRootUpdate"}
    /\ goroutines[g].line \in
          {"GetRoot", "GetRootLocked", "getAndVerifyLatestRoot", "rootLock", "apply"}

(***************************************************************************)
(* C22.  Under any interleaving of concurrent UpdateRoot and GetRoot calls *)
(* on one LogClient, at most one root update (read trusted root, fetch,    *)
(* verify, apply) is in progress at a time, so the root against which a    *)
(* new root was verified is still the trusted root at the moment the new   *)
(* root is applied, and the sequence of trusted roots has non-decreasing   *)
(* tree size and strictly increasing timestamps.                           *)
(***************************************************************************)
C22_OneUpdateAtATime ==
    /\ [](\A g, h \in Goroutines :
            (UpdateInProgress(g) /\ UpdateInProgress(h)) => g = h)
    /\ [](\A g \in Goroutines :
            goroutines[g].line = "apply" => goroutines[g].currentlyTrusted = root)
    /\ [][(root # <<>> /\ root' # root) =>
             /\ root'[1].TimestampNanos > root[1].TimestampNanos
             /\ root'[1].TreeSize >= root[1].TreeSize]_vars

\* One goroutine is about to apply a newer root to a trusted root that is not
\* the first one, while the other waits for updateLock in UpdateRoot.
C22_Witness ==
    \E g, h \in Goroutines :
       /\ g # h
       /\ goroutines[g].line = "apply"
       /\ updateLock = g
       /\ root[1].TimestampNanos > 0
       /\ goroutines[g].newTrusted[1].TimestampNanos > root[1].TimestampNanos
       /\ goroutines[h].method = "UpdateRoot"
       /\ goroutines[h].line = "UpdateRoot"

(***************************************************************************)
(* WaitForInclusion                                                        *)
(***************************************************************************)
\* The most proofs GetInclusionProofByHash answers with.
MaxProofs == 2

ErrBuildLeaf == Err("Unknown", "BuildLeaf")
ErrVerifyInclusionByHash == Err("Unknown", "VerifyInclusionByHash")

\* What the log server and the verifier answer during one
\* getAndVerifyInclusionProof: the error of the rpc, the number of proofs in the
\* response, and the error of the first VerifyInclusionByHash that fails.
InclusionAnswers ==
    { [GetInclusionProofByHash |-> e, proofs |-> 0, VerifyInclusionByHash |-> NilErr] :
        e \in RPCErrors("GetInclusionProofByHash") \cup {NilErr} }
    \cup { [GetInclusionProofByHash |-> NilErr, proofs |-> a[1],
            VerifyInclusionByHash |-> a[2]] :
             a \in (1..MaxProofs) \X {NilErr, ErrVerifyInclusionByHash} }

\* getAndVerifyInclusionProof(ctx, leafHash, sth) with the answers e: the
\* (bool, error) it returns.
getAndVerifyInclusionProof(sth, e) ==
    IF e.GetInclusionProofByHash # NilErr
    THEN [ok |-> FALSE, err |-> e.GetInclusionProofByHash]
    ELSE IF e.proofs < 1
    THEN [ok |-> FALSE, err |-> NilErr]
    ELSE IF e.VerifyInclusionByHash # NilErr
    THEN [ok |-> FALSE, err |-> ErrVerifyInclusionByHash]
    ELSE [ok |-> TRUE, err |-> NilErr]

\* The tests of WaitForInclusion with `else if err == nil` in place of
\* `else if ok`.
waitForInclusionSwitchNoOkTest(ok, err) ==
    IF err # NilErr /\ statusCode(err) # "NotFound"
    THEN [return |-> TRUE, err |-> err]
    ELSE IF err = NilErr
    THEN [return |-> TRUE, err |-> NilErr]
    ELSE [return |-> FALSE, err |-> NilErr]

\* The tests of WaitForInclusion on (ok, err): whether the method returns, and
\* what.
waitForInclusionSwitch(ok, err) ==
    IF err # NilErr /\ statusCode(err) # "NotFound"
    THEN [return |-> TRUE, err |-> err]
    ELSE IF ok
    THEN [return |-> TRUE, err |-> NilErr]
    ELSE [return |-> FALSE, err |-> NilErr]

\* WaitForInclusion returns err to its caller.
InclusionReturns(f, err) ==
    [IdleGoroutine EXCEPT !.method = "WaitForInclusion", !.line = "returned",
                          !.ctxDone = f.ctxDone, !.proof = f.proof,
                          !.ret = [root |-> NilRoot, err |-> err]]

\* WaitForInclusion calls a method of the client.
InclusionCalls(f, method, line) ==
    [IdleGoroutine EXCEPT !.method = method, !.caller = "WaitForInclusion",
                          !.line = line, !.ctxDone = f.ctxDone]

\* A goroutine calls WaitForInclusion(ctx, data): BuildLeaf fails and the error
\* is returned, or the loop comes to its GetRoot call.
CallWaitForInclusion(g) ==
    /\ g \in Includers
    /\ root # <<>>
    /\ goroutines[g].line = "idle"
    /\ \E ctxDone \in BOOLEAN : \E err \in {NilErr, ErrBuildLeaf} :
         LET f == [IdleGoroutine EXCEPT !.ctxDone = ctxDone]
         IN  goroutines' =
               [goroutines EXCEPT
                  ![g] = IF err # NilErr
                         THEN InclusionReturns(f, err)
                         ELSE InclusionCalls(f, "GetRoot", "GetRoot")]
    /\ UNCHANGED <<root, rootLock, updateLock, notClient>>

\* WaitForInclusion: root = c.GetRoot() has returned; with root.TreeSize >= 1
\* getAndVerifyInclusionProof is called with it, otherwise the loop goes on to
\* WaitForRootUpdate.
InclusionProof(g) ==
    /\ goroutines[g].caller = "WaitForInclusion"
    /\ goroutines[g].method = "GetRoot"
    /\ goroutines[g].line = "returned"
    /\ LET f == goroutines[g]
           sth == f.ret.root
       IN  IF sth[1].TreeSize >= 1
           THEN \E e \in InclusionAnswers :
                  LET r == getAndVerifyInclusionProof(sth[1], e)
                  IN  goroutines' =
                        [goroutines EXCEPT
                           ![g] = [InclusionCalls(f, "WaitForInclusion", "inclusionSwitch")
                                     EXCEPT !.proof = [ok |-> r.ok, err |-> r.err,
                                                       root |-> sth, trusted |-> root]]]
           ELSE goroutines' =
                  [goroutines EXCEPT
                     ![g] = InclusionCalls(f, "WaitForRootUpdate", "UpdateRoot")]
    /\ UNCHANGED <<root, rootLock, updateLock, notClient>>

\* WaitForInclusion: the tests on (ok, err); the method returns, or the loop
\* goes on to WaitForRootUpdate.
InclusionSwitch(g) ==
    /\ goroutines[g].line = "inclusionSwitch"
    /\ LET f == goroutines[g]
           s == waitForInclusionSwitch(f.proof.ok, f.proof.err)
       IN  goroutines' =
             [goroutines EXCEPT
                ![g] = IF s.return
                       THEN InclusionReturns(f, s.err)
                       ELSE InclusionCalls(f, "WaitForRootUpdate", "UpdateRoot")]
    /\ UNCHANGED <<root, rootLock, updateLock, notClient>>

\* WaitForInclusion: WaitForRootUpdate has returned; its error is returned, or
\* the loop comes to its GetRoot call again.
InclusionWaited(g) ==
    /\ goroutines[g].caller = "WaitForInclusion"
    /\ goroutines[g].method = "WaitForRootUpdate"
    /\ goroutines[g].line = "returned"
    /\ LET f == goroutines[g]
       IN  goroutines' =
             [goroutines EXCEPT
                ![g] = IF f.ret.err # NilErr
                       THEN InclusionReturns(f, f.ret.err)
                       ELSE InclusionCalls(f, "GetRoot", "GetRoot")]
    /\ UNCHANGED <<root, rootLock, updateLock, notClient>>

NextInclusion ==
    \/ LogClientNew
    \/ \E g \in Goroutines :
         \/ CallWaitForInclusion(g)
         \/ CallUpdateRoot(g)
         \/ Cancel(g)
         \/ UpdateLock(g)
         \/ GetRootLock(g)
         \/ GetRootCopy(g)
         \/ GetAndVerifyLatestRoot(g)
         \/ RootLock(g)
         \/ Apply(g)
         \/ Switch(g)
         \/ SelectCtxDone(g)
         \/ SelectTimer(g)
         \/ InclusionProof(g)
         \/ InclusionSwitch(g)
         \/ InclusionWaited(g)
         \/ Returned(g)

SpecInclusion == Init /\ [][NextInclusion]_vars

\* WaitForInclusion has returned nil.
WaitForInclusionReturnedNil(g) ==
    /\ goroutines[g].method = "WaitForInclusion"
    /\ goroutines[g].line = "returned"
    /\ goroutines[g].ret.err = NilErr

\* The root a is the root b or an earlier one of the same log.
NotAfter(a, b) ==
    \/ a = b
    \/ a.TimestampNanos < b.TimestampNanos /\ a.TreeSize <= b.TreeSize

\* The parts of C21 that do not depend on which root the proof was verified
\* against: a proof is requested only for a root of tree size 1 or more, and
\* NotFound or an empty proof list sends the loop to WaitForRootUpdate.
RequestsAndRetries ==
    /\ [](\A g \in Goroutines :
            goroutines[g].line = "inclusionSwitch" =>
               goroutines[g].proof.root[1].TreeSize >= 1)
    /\ [][\A g \in Goroutines :
            (/\ goroutines[g].line = "inclusionSwitch"
             /\ goroutines'[g].line # "inclusionSwitch"
             /\ \/ statusCode(goroutines[g].proof.err) = "NotFound"
                \/ goroutines[g].proof.err = NilErr /\ ~goroutines[g].proof.ok)
            => /\ goroutines'[g].method = "WaitForRootUpdate"
               /\ goroutines'[g].line = "UpdateRoot"]_vars

(***************************************************************************)
(* C21.  LogClient.WaitForInclusion returns nil only after an inclusion    *)
(* proof for the leaf was fetched and verified against the client's        *)
(* trusted root at that moment; it never requests an inclusion proof for a *)
(* trusted root of tree size 0, and on NotFound or an empty proof list it  *)
(* waits for a root update and retries instead of returning.               *)
(***************************************************************************)
C21_ProofAgainstTrustedRoot ==
    /\ [](\A g \in Goroutines :
            WaitForInclusionReturnedNil(g) =>
               /\ goroutines[g].proof.ok
               /\ goroutines[g].proof.root # NilRoot
               /\ goroutines[g].proof.root = goroutines[g].proof.trusted)
    /\ RequestsAndRetries

(***************************************************************************)
(* C21, amended.  WaitForInclusion returns nil only after an inclusion     *)
(* proof for the leaf was fetched and verified against the copy of the     *)
(* trusted root that GetRoot returned in that iteration of the loop, which *)
(* is the trusted root of the moment of the proof or, when another         *)
(* goroutine has updated the root since, an earlier trusted root with a    *)
(* smaller timestamp and a tree size not larger; it never requests an      *)
(* inclusion proof for a root of tree size 0, and on NotFound or an empty  *)
(* proof list it waits for a root update and retries instead of returning. *)
(***************************************************************************)
C21_ProofAgainstRootRead ==
    /\ [](\A g \in Goroutines :
            WaitForInclusionReturnedNil(g) =>
               /\ goroutines[g].proof.ok
               /\ goroutines[g].proof.root # NilRoot
               /\ NotAfter(goroutines[g].proof.root[1], goroutines[g].proof.trusted[1]))
    /\ RequestsAndRetries

\* WaitForInclusion returned nil with a proof against a root that another
\* goroutine had replaced by then.
C21_Witness ==
    \E g \in Includers :
       /\ WaitForInclusionReturnedNil(g)
       /\ goroutines[g].proof.ok
       /\ goroutines[g].proof.root # goroutines[g].proof.trusted
       /\ goroutines[g].proof.root[1].TreeSize >= 1

====
